---- MODULE Spec2Model ----
(***************************************************************************)
(* A model of the OpenAlpha backend: the Alpha Vantage collection service  *)
(* (rate limiter and retry loop), the market-data batch job, the tier      *)
(* check, the web-scraping rate limiter, the sentiment and stock crud, the *)
(* recommendation service (risk level and generation), the scheduler set   *)
(* up at startup, the recommendations job and the health endpoint.  Each   *)
(* part has its own specification over the shared variables; the           *)
(* variables of the other parts stay at their initial values.              *)
(***************************************************************************)
EXTENDS Integers, Sequences, FiniteSets, TLC

VARIABLES
    now,             \* asyncio event-loop time, in seconds
    \* services/data_collection.py
    apiKey,          \* settings.ALPHA_VANTAGE_API_KEY is configured
    active,          \* the collect_market_data_from_alpha_vantage calls of this run
    offered,         \* the responses the provider gives in this run
    last_call_time,  \* _rate_limiter.last_call_time
    call,            \* per call: position, attempt, wake-up time, history, result
    calls,           \* the requests sent to the provider: time, call, attempt
    \* services/tier_service.py, core/tier.py
    tier,            \* the user's row: "free", "premium", or "missing" (no row)
    tracked,         \* the stocks of the user's UserStockTracking rows
    req,             \* per add-tracked-stock request: position, tier check result
    \* services/sentiment_service.py
    scrape,          \* per collect_sentiment_from_web call: position, domain, delay
    held,            \* per RateLimiter instance: the domains whose lock is held
    pages,           \* the page requests sent: time, call, domain
    \* tasks/market_data.py
    job,             \* the run: entry point, position, engine, batch bounds
    collected,       \* per stock: what collect_for_stock came to
    written,         \* the stocks with a MarketData row written by this run
    stats,           \* the statistics of collect_market_data_for_stocks
    \* -- crud, recommendations, application --
    \* crud/sentiment_data.py
    sentiment_data,  \* the SentimentData rows
    ups,             \* per session: the upsert_sentiment_data call it is in
    upserts,         \* the upsert calls that returned, in order
    \* crud/stocks.py
    stock_rows,      \* the Stock rows
    stock_call,      \* the last create_stock or upsert_stock call
    \* services/recommendation_service.py
    risk_call,       \* a calculate_risk_level call: arguments and result
    \* services/recommendation_service.py: generate_recommendations
    gen,             \* a generate_recommendations call: position, candidates, rows
    gen_inputs,      \* what the stocks of this run can come to
    \* lifetime.py
    sched,           \* the scheduler: jobs, due firings, runs, the last job processed
    \* tasks/recommendations.py
    rjob,            \* a recommendations_job run: position, engine, users, totals
    \* health.py
    health,          \* the check_health request being served
    health_responses,\* the responses given, in order
    \* api/v1/endpoints/ml.py
    predictions,     \* the POST /ml/predict requests served: outcome and response
    \* users/manager.py
    pw,              \* a validate_password call: password, user email, result
    \* services/email/__init__.py
    mail,            \* the email settings and the provider get_mailer chose
    \* models/user_stock_tracking.py
    tracking,        \* the user_stock_tracking table: how it was made, its rows
    \* crud/users.py
    prefs,           \* the user_preferences table, the calls made, the last call
    \* lifetime.py: startup
    boot             \* startup(): position, phases attempted and failed, what was logged

avVars == <<apiKey, active, offered, last_call_time, call, calls>>
tierVars == <<tier, tracked, req>>

scrapeVars == <<scrape, held, pages>>

jobVars == <<job, collected, written, stats>>

sentVars == <<sentiment_data, ups, upserts>>
stockVars == <<stock_rows, stock_call>>
riskVars == <<risk_call>>
genVars == <<gen, gen_inputs>>
schedVars == <<sched>>
rjobVars == <<rjob>>
healthVars == <<health, health_responses>>
mlVars == <<predictions>>
pwVars == <<pw>>
mailVars == <<mail>>
trackVars == <<tracking>>
prefsVars == <<prefs>>
bootVars == <<boot>>

\* what the actions of one part leave alone
notAV == <<tierVars, scrapeVars, jobVars, sentVars, stockVars, riskVars, genVars, schedVars, rjobVars, healthVars, mlVars, pwVars, mailVars, trackVars, prefsVars, bootVars>>
notTier == <<now, avVars, scrapeVars, jobVars, sentVars, stockVars, riskVars, genVars, schedVars, rjobVars, healthVars, mlVars, pwVars, mailVars, trackVars, prefsVars, bootVars>>
notScrape == <<avVars, tierVars, jobVars, sentVars, stockVars, riskVars, genVars, schedVars, rjobVars, healthVars, mlVars, pwVars, mailVars, trackVars, prefsVars, bootVars>>
notJob == <<now, avVars, tierVars, scrapeVars, sentVars, stockVars, riskVars, genVars, schedVars, rjobVars, healthVars, mlVars, pwVars, mailVars, trackVars, prefsVars, bootVars>>
notSent == <<now, avVars, tierVars, scrapeVars, jobVars, stockVars, riskVars, genVars, schedVars, rjobVars, healthVars, mlVars, pwVars, mailVars, trackVars, prefsVars, bootVars>>
notStock == <<now, avVars, tierVars, scrapeVars, jobVars, sentVars, riskVars, genVars, schedVars, rjobVars, healthVars, mlVars, pwVars, mailVars, trackVars, prefsVars, bootVars>>
notRisk == <<now, avVars, tierVars, scrapeVars, jobVars, sentVars, stockVars, genVars, schedVars, rjobVars, healthVars, mlVars, pwVars, mailVars, trackVars, prefsVars, bootVars>>
notGen == <<now, avVars, tierVars, scrapeVars, jobVars, sentVars, stockVars, riskVars, schedVars, rjobVars, healthVars, mlVars, pwVars, mailVars, trackVars, prefsVars, bootVars>>
notSched == <<now, avVars, tierVars, scrapeVars, jobVars, sentVars, stockVars, riskVars, genVars, rjobVars, healthVars, mlVars, pwVars, mailVars, trackVars, prefsVars, bootVars>>
notRjob == <<now, avVars, tierVars, scrapeVars, jobVars, sentVars, stockVars, riskVars, genVars, schedVars, healthVars, mlVars, pwVars, mailVars, trackVars, prefsVars, bootVars>>
notHealth == <<now, avVars, tierVars, scrapeVars, jobVars, sentVars, stockVars, riskVars, genVars, schedVars, rjobVars, mlVars, pwVars, mailVars, trackVars, prefsVars, bootVars>>
notMl == <<now, avVars, tierVars, scrapeVars, jobVars, sentVars, stockVars, riskVars, genVars, schedVars, rjobVars, healthVars, pwVars, mailVars, trackVars, prefsVars, bootVars>>
notPw == <<now, avVars, tierVars, scrapeVars, jobVars, sentVars, stockVars, riskVars, genVars, schedVars, rjobVars, healthVars, mlVars, mailVars, trackVars, prefsVars, bootVars>>
notMail == <<now, avVars, tierVars, scrapeVars, jobVars, sentVars, stockVars, riskVars, genVars, schedVars, rjobVars, healthVars, mlVars, pwVars, trackVars, prefsVars, bootVars>>
notTrack == <<now, avVars, tierVars, scrapeVars, jobVars, sentVars, stockVars, riskVars, genVars, schedVars, rjobVars, healthVars, mlVars, pwVars, mailVars, prefsVars, bootVars>>
notPrefs == <<now, avVars, tierVars, scrapeVars, jobVars, sentVars, stockVars, riskVars, genVars, schedVars, rjobVars, healthVars, mlVars, pwVars, mailVars, trackVars, bootVars>>
notBoot == <<now, avVars, tierVars, scrapeVars, jobVars, sentVars, stockVars, riskVars, genVars, schedVars, rjobVars, healthVars, mlVars, pwVars, mailVars, trackVars, prefsVars>>

----------------------------------------------------------------------------
(* Bounds *)

\* the number of concurrent collection calls (one gather of a batch)
NumTasks == 2

Tasks == 1..NumTasks

\* the number of concurrent add-tracked-stock requests of the user
NumRequests == 2

Requests == 1..NumRequests

\* the number of concurrent collect_sentiment_from_web calls
NumScrapes == 2

\* the calls made against every answer to the robots.txt request
NumRobotsCalls == 1

Scrapes == 1..NumScrapes

\* the most stocks one run of the market-data job is given
MaxStocks == 4

\* the largest batch_size a direct call passes
MaxBatch == 3

\* the stocks a user can track
NumStocks == 6

Stocks == 1..NumStocks

\* the sessions that can call upsert_sentiment_data
NumSessions == 2

Sessions == 1..NumSessions

\* the timestamps a sentiment record can carry
NumTimestamps == 2

\* the upsert_sentiment_data calls of one run
MaxUpserts == 3

\* the source column of a sentiment record
SentimentSources == {"twitter", "news"}

\* sentiment scores, in tenths
SentimentScores == {5, 7}

\* the most stocks get_all_stocks gives generate_recommendations
MaxGenStocks == 3

\* the largest daily_target_count
MaxTarget == 2

\* the most firings of a job that pile up before the scheduler gets to it
MaxBacklog == 2

\* the most users recommendations_job finds
MaxUsers == 3

\* the most recommendations one generation creates
MaxCreated == 2

\* the health checks of one run
MaxHealthChecks == 4

\* the POST /ml/predict requests of one run
MaxPredicts == 2

\* the longest password
MaxPasswordLen == 9

\* the most rows of user_stock_tracking
MaxTrackingRows == 4

\* the upsert_user_preferences calls of one run
MaxPrefCalls == 3

\* the symbols create_stock and upsert_stock are called with
StockSymbols == {"AAPL", "aapl", "Aapl", "MSFT"}

CompanyNames == {"Apple Inc.", "Apple Inc. Updated"}

----------------------------------------------------------------------------
(* services/data_collection.py: configuration *)

ALPHA_VANTAGE_RATE_LIMIT_CALLS_PER_MINUTE == 5
ALPHA_VANTAGE_RATE_LIMIT_DELAY_SECONDS == 12
MAX_RETRIES == 3
RETRY_DELAYS == <<1, 2, 4>>
RATE_LIMIT_SLEEP == 60

(* services/tier_service.py *)
FREE_TIER_LIMIT == 5

(* tasks/market_data.py *)
BATCH_SIZE == 50

(* core/config.py *)
SCRAPE_MIN_DELAY_SECONDS == 2

\* RateLimiter.__init__: self.min_delay = 60.0 / calls_per_minute
min_delay == 60 \div ALPHA_VANTAGE_RATE_LIMIT_CALLS_PER_MINUTE

\* the event loop's clock when the first call starts (time.monotonic():
\* the limiter's last_call_time starts at 0.0 whatever the clock reads)
LoopStartTimes == {0, 5, 100}

----------------------------------------------------------------------------
(* The provider's responses.  status 0 is a timeout and -1 any other       *)
(* transport or decoding exception; the body is read only when             *)
(* raise_for_status() passes, so only a 200 carries one.                   *)

TIMEOUT == 0
TRANSPORT_ERROR == -1

BodyKeys == {"Error Message", "Note", "Global Quote"}

\* "05. price": absent or empty, not a number, negative, zero, positive
PriceStrs == {"", "abc", "-3.5", "0.0", "150.50"}
\* "06. volume": absent or empty, not an int literal, negative, zero, positive
VolumeStrs == {"", "1.5", "-7", "0", "1000000"}

Resp(s, k, p, v) == [status |-> s, keys |-> k, price |-> p, volume |-> v]

ErrorStatuses == {TIMEOUT, TRANSPORT_ERROR, 400, 404, 429, 500, 503}

Responses ==
    {Resp(s, {}, "", "") : s \in ErrorStatuses}
    \cup {Resp(200, k, "150.50", "1000000") : k \in SUBSET BodyKeys}
    \cup {Resp(200, {"Global Quote"}, p, v) : p \in PriceStrs, v \in VolumeStrs}

\* the provider of the concurrent runs: a valid quote or a server error
FewResponses ==
    {Resp(500, {}, "", ""), Resp(200, {"Global Quote"}, "150.50", "1000000")}

----------------------------------------------------------------------------
(* Results of a call *)

Pending == [kind |-> "pending", price |-> 0, volume |-> 0]
Absent == [kind |-> "None", price |-> 0, volume |-> 0]
Raised == [kind |-> "raised", price |-> 0, volume |-> 0]
Data(p, v) == [kind |-> "data", price |-> p, volume |-> v]

\* float(price_str), in hundredths; ok = FALSE where float() raises ValueError
FloatOf(s) ==
    CASE s = "150.50" -> [ok |-> TRUE, val |-> 15050]
      [] s = "0.0" -> [ok |-> TRUE, val |-> 0]
      [] s = "-3.5" -> [ok |-> TRUE, val |-> -350]
      [] OTHER -> [ok |-> FALSE, val |-> 0]

\* int(volume_str); ok = FALSE where int() raises ValueError ("1.5" does)
IntOf(s) ==
    CASE s = "1000000" -> [ok |-> TRUE, val |-> 1000000]
      [] s = "0" -> [ok |-> TRUE, val |-> 0]
      [] s = "-7" -> [ok |-> TRUE, val |-> -7]
      [] OTHER -> [ok |-> FALSE, val |-> 0]

\* What one pass of the retry loop does with a response:
\*   act "return": the call returns `result`
\*   act "sleep":  asyncio.sleep(secs), then `continue`
\*   act "fall":   the except block ends without continue or return
Return(res, why) == [act |-> "return", secs |-> 0, result |-> res, why |-> why]
SleepThenRetry(secs, why) == [act |-> "sleep", secs |-> secs, result |-> Pending, why |-> why]
FallThrough(why) == [act |-> "fall", secs |-> 0, result |-> Pending, why |-> why]

\* ParseQuote accepting a price of zero (price < 0 for price <= 0)
ParseQuote_AcceptsZeroPrice(r) ==
    IF r.price = "" \/ r.volume = ""
    THEN Return(Absent, "missing_field")
    ELSE IF ~FloatOf(r.price).ok \/ ~IntOf(r.volume).ok
    THEN Return(Absent, "parse_error")
    ELSE IF FloatOf(r.price).val < 0 \/ IntOf(r.volume).val < 0
    THEN Return(Absent, "invalid_value")
    ELSE Return(Data(FloatOf(r.price).val, IntOf(r.volume).val), "ok")

\* lines 118-162: the quote of a "Global Quote" document
ParseQuote(r) ==
    IF r.price = "" \/ r.volume = ""
    THEN Return(Absent, "missing_field")
    ELSE IF ~FloatOf(r.price).ok \/ ~IntOf(r.volume).ok
    THEN Return(Absent, "parse_error")
    ELSE IF FloatOf(r.price).val <= 0 \/ IntOf(r.volume).val < 0
    THEN Return(Absent, "invalid_value")
    ELSE Return(Data(FloatOf(r.price).val, IntOf(r.volume).val), "ok")

\* OnBody backing off on a "Note" as it does on a server error
OnBody_NoteBacksOff(attempt, r) ==
    IF "Error Message" \in r.keys
    THEN Return(Absent, "api_error")
    ELSE IF "Note" \in r.keys
    THEN IF attempt < MAX_RETRIES - 1
         THEN SleepThenRetry(RETRY_DELAYS[attempt + 1], "note")
         ELSE Return(Absent, "note")
    ELSE IF "Global Quote" \notin r.keys
    THEN Return(Absent, "no_quote")
    ELSE ParseQuote(r)

\* lines 88-116: a response whose status passed raise_for_status()
OnBody(attempt, r) ==
    IF "Error Message" \in r.keys
    THEN Return(Absent, "api_error")
    ELSE IF "Note" \in r.keys
    THEN IF attempt < MAX_RETRIES - 1
         THEN SleepThenRetry(RATE_LIMIT_SLEEP, "note")
         ELSE Return(Absent, "note")
    ELSE IF "Global Quote" \notin r.keys
    THEN Return(Absent, "no_quote")
    ELSE ParseQuote(r)

\* OnStatusError retrying every error status (status >= 400 for >= 500)
OnStatusError_RetriesClientErrors(attempt, status) ==
    IF status = 429
    THEN IF attempt < MAX_RETRIES - 1
         THEN SleepThenRetry(RATE_LIMIT_SLEEP, "429")
         ELSE FallThrough("429")
    ELSE IF status >= 400
    THEN IF attempt < MAX_RETRIES - 1
         THEN SleepThenRetry(RETRY_DELAYS[attempt + 1], "5xx")
         ELSE FallThrough("5xx")
    ELSE Return(Absent, "client_error")

\* lines 164-190: except httpx.HTTPStatusError
OnStatusError(attempt, status) ==
    IF status = 429
    THEN IF attempt < MAX_RETRIES - 1
         THEN SleepThenRetry(RATE_LIMIT_SLEEP, "429")
         ELSE FallThrough("429")
    ELSE IF status >= 500
    THEN IF attempt < MAX_RETRIES - 1
         THEN SleepThenRetry(RETRY_DELAYS[attempt + 1], "5xx")
         ELSE FallThrough("5xx")
    ELSE Return(Absent, "client_error")

\* OnException sleeping before the last pass's successor too (<= for <)
OnException_RetriesOnceMore(attempt, why) ==
    IF attempt <= MAX_RETRIES - 1
    THEN SleepThenRetry(RETRY_DELAYS[attempt + 1], why)
    ELSE FallThrough(why)

\* lines 192-209: except httpx.TimeoutException, except Exception
OnException(attempt, why) ==
    IF attempt < MAX_RETRIES - 1
    THEN SleepThenRetry(RETRY_DELAYS[attempt + 1], why)
    ELSE FallThrough(why)

\* lines 82-209: one pass of `for attempt in range(MAX_RETRIES)`
OnResponse(attempt, r) ==
    CASE r.status = TIMEOUT -> OnException(attempt, "timeout")
      [] r.status = TRANSPORT_ERROR -> OnException(attempt, "error")
      [] r.status = 200 -> OnBody(attempt, r)
      [] OTHER -> OnStatusError(attempt, r.status)

----------------------------------------------------------------------------
(* The calls.  pc: "idle", "limiter_sleep" (RateLimiter.wait_if_needed is  *)
(* in asyncio.sleep), "request" (client.get is awaited), "retry_sleep"     *)
(* (asyncio.sleep before the next attempt), "done".                        *)

NewCall ==
    [pc |-> "idle", attempt |-> 0, wake |-> 0, waited |-> FALSE,
     hist |-> <<>>, sleeps |-> <<>>, result |-> Pending, why |-> "none"]

\* client.get(base_url, params): the request leaves at the loop's time
Send(c) == [c EXCEPT !.pc = "request"]
Sent(t, attempt) == [at |-> now, task |-> t, attempt |-> attempt]

\* lines 66-70 and 33-43: the key check, then wait_if_needed up to its await
AVStart(t) ==
    /\ t \in active
    /\ call[t].pc = "idle"
    /\ IF ~apiKey
       THEN /\ call' = [call EXCEPT ![t].pc = "done", ![t].result = Raised,
                                    ![t].why = "no_api_key"]
            /\ UNCHANGED <<last_call_time, calls>>
       ELSE IF now - last_call_time < min_delay
       THEN /\ call' = [call EXCEPT ![t].pc = "limiter_sleep", ![t].waited = TRUE,
                                    ![t].wake = now + (min_delay - (now - last_call_time))]
            /\ UNCHANGED <<last_call_time, calls>>
       ELSE /\ last_call_time' = now
            /\ call' = [call EXCEPT ![t] = Send([@ EXCEPT !.waited = TRUE])]
            /\ calls' = Append(calls, Sent(t, call[t].attempt))
    /\ UNCHANGED <<now, apiKey, active, offered, notAV>>

\* line 43, after the limiter's sleep: last_call_time is set, the request sent
AVLimiterWake(t) ==
    /\ t \in active
    /\ call[t].pc = "limiter_sleep"
    /\ now >= call[t].wake
    /\ last_call_time' = now
    /\ call' = [call EXCEPT ![t] = Send(@)]
    /\ calls' = Append(calls, Sent(t, call[t].attempt))
    /\ UNCHANGED <<now, apiKey, active, offered, notAV>>

\* the response (or exception) of the awaited request, and what the loop does
AfterResponse(c, r) ==
    LET o == OnResponse(c.attempt, r)
        h == [c EXCEPT !.hist = Append(@, r)]
    IN  CASE o.act = "return" ->
               [h EXCEPT !.pc = "done", !.result = o.result, !.why = o.why]
          [] o.act = "sleep" ->
               [h EXCEPT !.pc = "retry_sleep", !.wake = now + o.secs,
                         !.sleeps = Append(@, o.secs), !.why = o.why]
          [] OTHER ->
               \* the loop is over after the last pass: lines 211-216
               IF c.attempt + 1 < MAX_RETRIES
               THEN [h EXCEPT !.pc = "retry_sleep", !.wake = now, !.why = o.why]
               ELSE [h EXCEPT !.pc = "done", !.result = Absent, !.why = "exhausted"]

AVRespond(t) ==
    /\ t \in active
    /\ call[t].pc = "request"
    /\ \E r \in offered : call' = [call EXCEPT ![t] = AfterResponse(@, r)]
    /\ UNCHANGED <<now, apiKey, active, offered, last_call_time, calls, notAV>>

\* `continue`: the next attempt, which does not pass the limiter again
AVRetry(t) ==
    /\ t \in active
    /\ call[t].pc = "retry_sleep"
    /\ now >= call[t].wake
    /\ call' = [call EXCEPT ![t] = Send([@ EXCEPT !.attempt = @ + 1])]
    /\ calls' = Append(calls, Sent(t, call[t].attempt + 1))
    /\ UNCHANGED <<now, apiKey, active, offered, last_call_time, notAV>>

\* the loop's clock runs on to the next timer when no timer is due
Sleepers == {t \in active : call[t].pc \in {"limiter_sleep", "retry_sleep"}}

AVTick ==
    /\ Sleepers # {}
    /\ \A t \in Sleepers : call[t].wake > now
    /\ \E t \in Sleepers :
         /\ \A u \in Sleepers : call[t].wake <= call[u].wake
         /\ now' = call[t].wake
    /\ UNCHANGED <<avVars, notAV>>

AVInit(tasks, provider) ==
    /\ now \in LoopStartTimes
    /\ apiKey \in BOOLEAN
    /\ active = tasks
    /\ offered = provider
    /\ last_call_time = 0
    /\ call = [t \in Tasks |-> NewCall]
    /\ calls = <<>>

AVNext ==
    \/ \E t \in Tasks : AVStart(t)
    \/ \E t \in Tasks : AVLimiterWake(t)
    \/ \E t \in Tasks : AVRespond(t)
    \/ \E t \in Tasks : AVRetry(t)
    \/ AVTick


----------------------------------------------------------------------------
(* services/tier_service.py and core/tier.py: the tier check and its guard *)

\* Optional[int]: None, or the one value
None == {}
Some(x) == {x}

\* get_user_tier: the tier of the user's row, FREE when there is no row
get_user_tier(row) == IF row = "missing" THEN "free" ELSE row

\* check_tier_limit allowing the request when a query raised
check_tier_limit_FailsOpen(row, stock_count, failed) ==
    IF failed
    THEN [allowed |-> TRUE, reason |-> "tier_check_error", stock_count |-> 0]
    ELSE IF get_user_tier(row) = "premium"
    THEN [allowed |-> TRUE, limit |-> None, remaining |-> None,
          stock_count |-> stock_count]
    ELSE IF stock_count >= FREE_TIER_LIMIT
    THEN [allowed |-> FALSE, reason |-> "free_tier_limit_reached",
          limit |-> Some(FREE_TIER_LIMIT), remaining |-> Some(0),
          stock_count |-> stock_count]
    ELSE [allowed |-> TRUE, limit |-> Some(FREE_TIER_LIMIT),
          remaining |-> Some(FREE_TIER_LIMIT - stock_count),
          stock_count |-> stock_count]

\* check_tier_limit denying only above the limit (> for >=)
check_tier_limit_OffByOne(row, stock_count, failed) ==
    IF failed
    THEN [allowed |-> FALSE, reason |-> "tier_check_error", stock_count |-> 0]
    ELSE IF get_user_tier(row) = "premium"
    THEN [allowed |-> TRUE, limit |-> None, remaining |-> None,
          stock_count |-> stock_count]
    ELSE IF stock_count > FREE_TIER_LIMIT
    THEN [allowed |-> FALSE, reason |-> "free_tier_limit_reached",
          limit |-> Some(FREE_TIER_LIMIT), remaining |-> Some(0),
          stock_count |-> stock_count]
    ELSE [allowed |-> TRUE, limit |-> Some(FREE_TIER_LIMIT),
          remaining |-> Some(FREE_TIER_LIMIT - stock_count),
          stock_count |-> stock_count]

\* check_tier_limit given the count query's answer; failed: a query raised
check_tier_limit(row, stock_count, failed) ==
    IF failed
    THEN [allowed |-> FALSE, reason |-> "tier_check_error", stock_count |-> 0]
    ELSE IF get_user_tier(row) = "premium"
    THEN [allowed |-> TRUE, limit |-> None, remaining |-> None,
          stock_count |-> stock_count]
    ELSE IF stock_count >= FREE_TIER_LIMIT
    THEN [allowed |-> FALSE, reason |-> "free_tier_limit_reached",
          limit |-> Some(FREE_TIER_LIMIT), remaining |-> Some(0),
          stock_count |-> stock_count]
    ELSE [allowed |-> TRUE, limit |-> Some(FREE_TIER_LIMIT),
          remaining |-> Some(FREE_TIER_LIMIT - stock_count),
          stock_count |-> stock_count]

\* the detail of the 403 require_tier_access raises for a denied result
ForbiddenDetail(result) ==
    IF "reason" \in DOMAIN result /\ result.reason = "free_tier_limit_reached"
    THEN "Free tier limit reached. Upgrade for unlimited access."
    ELSE "Tier check failed. Please try again."

NoResult == [allowed |-> FALSE, reason |-> "not_checked", stock_count |-> 0]

NewRequest ==
    [pc |-> "idle", counted |-> 0, failed |-> FALSE, result |-> NoResult,
     detail |-> "", stock |-> 0]

\* require_tier_access: the dependency runs check_tier_limit before the
\* endpoint's body; a denied result becomes HTTP 403
RequireTierAccess(r) ==
    /\ req[r].pc = "idle"
    /\ \E failed \in BOOLEAN :
         LET n == Cardinality(tracked)
             result == check_tier_limit(tier, n, failed)
         IN  req' = [req EXCEPT ![r] =
                        [@ EXCEPT !.counted = n, !.failed = failed,
                                  !.result = result,
                                  !.pc = IF result.allowed THEN "allowed" ELSE "forbidden",
                                  !.detail = IF result.allowed THEN ""
                                             ELSE ForbiddenDetail(result)]]
    /\ UNCHANGED <<tier, tracked, notTier>>

\* the add-tracked-stock action behind the guard: one UserStockTracking row
\* for (user, stock); the foreign key to users and the unique constraint on
\* (user_id, stock_id) reject the insert
AddTrackedStock(r) ==
    /\ req[r].pc = "allowed"
    /\ \E s \in Stocks :
         IF tier = "missing" \/ s \in tracked
         THEN /\ req' = [req EXCEPT ![r].pc = "rejected", ![r].stock = s]
              /\ UNCHANGED tracked
         ELSE /\ req' = [req EXCEPT ![r].pc = "added", ![r].stock = s]
              /\ tracked' = tracked \cup {s}
    /\ UNCHANGED <<tier, notTier>>

TierNext ==
    \/ \E r \in Requests : RequireTierAccess(r)
    \/ \E r \in Requests : AddTrackedStock(r)

\* the tier part at rest, for the specifications of the other parts
TierIdle ==
    /\ tier = "free"
    /\ tracked = {}
    /\ req = [r \in Requests |-> NewRequest]

\* a user with some stocks tracked, and concurrent add requests
TierInit ==
    /\ tier \in {"free", "premium", "missing"}
    /\ \E n \in 0..NumStocks :
         /\ tier = "free" => n <= FREE_TIER_LIMIT
         /\ tier = "missing" => n = 0
         /\ tracked = 1..n
    /\ req = [r \in Requests |-> NewRequest]

AVIdle ==
    /\ now = 0
    /\ apiKey = TRUE
    /\ active = {}
    /\ offered = {}
    /\ last_call_time = 0
    /\ call = [t \in Tasks |-> NewCall]
    /\ calls = <<>>


----------------------------------------------------------------------------
(* services/sentiment_service.py: the scraper and its RateLimiter *)

\* urlparse(source_url).netloc of the two collectors' pages
Domains == {"www.marketwatch.com", "seekingalpha.com"}

\* the min_delay_seconds argument
MinDelayArgs == {None, Some(1)}

\* _load_robots_txt and what the parsed file says: no parser (status other
\* than 200, or an exception), or a parser with its can_fetch and crawl_delay
\* answers (crawl_delay 0: the file declares none)
RobotsFiles ==
    {[fetched |-> FALSE, can_fetch |-> TRUE, crawl_delay |-> 0]}
    \cup {[fetched |-> TRUE, can_fetch |-> a, crawl_delay |-> d] :
            a \in BOOLEAN, d \in {0, 5}}

\* the answers to the robots.txt request: the status (TRANSPORT_ERROR: the
\* request raised) and what the body, parsed, would say; the body that comes
\* with a failure is one that disallows the page
RobotsResponses ==
    {[status |-> 200, can_fetch |-> a, crawl_delay |-> d] : a \in BOOLEAN, d \in {0, 5}}
    \cup {[status |-> s, can_fetch |-> FALSE, crawl_delay |-> 5] :
            s \in {404, 503, TRANSPORT_ERROR}}

\* a _load_robots_txt that parses whatever body it gets
load_robots_txt_AnyStatus(resp) ==
    IF resp.status = TRANSPORT_ERROR
    THEN [fetched |-> FALSE, can_fetch |-> TRUE, crawl_delay |-> 0]
    ELSE [fetched |-> TRUE, can_fetch |-> resp.can_fetch, crawl_delay |-> resp.crawl_delay]

\* _load_robots_txt, lines 31-42: a parser for a 200, None otherwise; its
\* values are those of RobotsFiles
load_robots_txt(resp) ==
    IF resp.status # 200
    THEN [fetched |-> FALSE, can_fetch |-> TRUE, crawl_delay |-> 0]
    ELSE [fetched |-> TRUE, can_fetch |-> resp.can_fetch, crawl_delay |-> resp.crawl_delay]

\* lines 60 and 70-76: the delay the limiter is built with
EffectiveDelay(arg, rp) ==
    IF rp.fetched /\ rp.crawl_delay > 0
    THEN rp.crawl_delay
    ELSE IF arg # None THEN CHOOSE d \in arg : TRUE ELSE SCRAPE_MIN_DELAY_SECONDS

\* line 77: every call builds a RateLimiter of its own, so the limiter whose
\* locks call c takes is the one named by c
LimiterOf(c) == c

NewScrape ==
    [pc |-> "idle", domain |-> "", arg |-> None, robots |-> None, delay |-> 0,
     wake |-> 0, result |-> "pending"]

\* lines 56-60: the call starts and awaits robots.txt
ScrapeStart(c) ==
    /\ scrape[c].pc = "idle"
    /\ \E d \in Domains, a \in MinDelayArgs :
         scrape' = [scrape EXCEPT ![c].pc = "robots", ![c].domain = d, ![c].arg = a]
    /\ UNCHANGED <<now, held, pages, notScrape>>

\* lines 65-77: robots.txt is in; a disallowed page ends the call
ScrapeRobots(c) ==
    /\ scrape[c].pc = "robots"
    /\ \E resp \in RobotsResponses :
         LET rp == load_robots_txt(resp) IN
         IF rp.fetched /\ ~rp.can_fetch
         THEN scrape' = [scrape EXCEPT ![c].pc = "done", ![c].result = "None",
                                       ![c].robots = Some(resp)]
         ELSE scrape' = [scrape EXCEPT ![c].pc = "acquire", ![c].robots = Some(resp),
                                       ![c].delay = EffectiveDelay(scrape[c].arg, rp)]
    /\ UNCHANGED <<now, held, pages, notScrape>>

\* RateLimiter.wait, lines 25-28: the domain's lock of the call's limiter is
\* taken, then asyncio.sleep(min_delay_seconds)
ScrapeAcquire(c) ==
    /\ scrape[c].pc = "acquire"
    /\ scrape[c].domain \notin held[LimiterOf(c)]
    /\ held' = [held EXCEPT ![LimiterOf(c)] = @ \cup {scrape[c].domain}]
    /\ scrape' = [scrape EXCEPT ![c].pc = "delay", ![c].wake = now + scrape[c].delay]
    /\ UNCHANGED <<now, pages, notScrape>>

\* the sleep is over: the lock is released and line 82 requests the page
ScrapeRequest(c) ==
    /\ scrape[c].pc = "delay"
    /\ now >= scrape[c].wake
    /\ held' = [held EXCEPT ![LimiterOf(c)] = @ \ {scrape[c].domain}]
    /\ scrape' = [scrape EXCEPT ![c].pc = "fetch"]
    /\ pages' = Append(pages, [at |-> now, call |-> c, domain |-> scrape[c].domain,
                               delay |-> scrape[c].delay])
    /\ UNCHANGED <<now, notScrape>>

\* lines 82-104: the page's answer; only a 200 with text gives a record
ScrapeFetched(c) ==
    /\ scrape[c].pc = "fetch"
    /\ \E answer \in {"ok", "empty", "non200", "http_error"} :
         scrape' = [scrape EXCEPT ![c].pc = "done",
                       ![c].result = IF answer = "ok" THEN "data" ELSE "None"]
    /\ UNCHANGED <<now, held, pages, notScrape>>

Delayed == {c \in Scrapes : scrape[c].pc = "delay"}

ScrapeTick ==
    /\ Delayed # {}
    /\ \A c \in Delayed : scrape[c].wake > now
    /\ \E c \in Delayed :
         /\ \A d \in Delayed : scrape[c].wake <= scrape[d].wake
         /\ now' = scrape[c].wake
    /\ UNCHANGED <<scrapeVars, notScrape>>

ScrapeNext ==
    \/ \E c \in Scrapes : ScrapeStart(c)
    \/ \E c \in Scrapes : ScrapeRobots(c)
    \/ \E c \in Scrapes : ScrapeAcquire(c)
    \/ \E c \in Scrapes : ScrapeRequest(c)
    \/ \E c \in Scrapes : ScrapeFetched(c)
    \/ ScrapeTick

ScrapeIdle ==
    /\ scrape = [c \in Scrapes |-> NewScrape]
    /\ held = [c \in Scrapes |-> {}]
    /\ pages = <<>>

\* a call that robots.txt turned away
TurnedAway ==
    [NewScrape EXCEPT !.pc = "done", !.domain = "seekingalpha.com", !.result = "None",
                      !.robots = Some([status |-> 200, can_fetch |-> FALSE,
                                       crawl_delay |-> 0])]

\* the first n calls are still to be made, the others are over
ScrapeInit(n) ==
    /\ scrape = [c \in Scrapes |-> IF c <= n THEN NewScrape ELSE TurnedAway]
    /\ held = [c \in Scrapes |-> {}]
    /\ pages = <<>>


----------------------------------------------------------------------------
(* tasks/market_data.py: collect_market_data_for_stocks and the job *)

Min(a, b) == IF a < b THEN a ELSE b

\* create_market_data: the row is written and the call returns, or the call
\* raises and no row is written
create_market_data(rows, stock, ok) == IF ok THEN rows \cup {stock} ELSE rows

\* lines 78-107 counting a write failure as nothing
CountResult_DropsWriteFailure(st, result, stored) ==
    IF result # "data"
    THEN [st EXCEPT !.failed = @ + 1]
    ELSE IF stored
    THEN [st EXCEPT !.successful = @ + 1]
    ELSE st

\* lines 78-107: the statistics after one result of the batch; result is
\* what collect_for_stock returned, stored whether create_market_data returned
CountResult(st, result, stored) ==
    IF result # "data"
    THEN [st EXCEPT !.failed = @ + 1]
    ELSE IF stored
    THEN [st EXCEPT !.successful = @ + 1]
    ELSE [st EXCEPT !.failed = @ + 1]

\* stocks[batch_start:batch_end], as positions 1..len(stocks)
Batch == (job.batch_start + 1)..job.batch_end

NewJob(entry, pc, n, size) ==
    [entry |-> entry, pc |-> pc, outcome |-> "running",
     engine |-> "none", disposeCalls |-> 0,
     n |-> n, batch_size |-> size, batch_start |-> 0, batch_end |-> 0,
     k |-> 0, handled |-> {}, statsReturned |-> FALSE]

\* line 194: create_async_engine
JobCreateEngine ==
    /\ job.pc = "create_engine"
    /\ \/ job' = [job EXCEPT !.engine = "open", !.pc = "get_stocks"]
       \/ job' = [job EXCEPT !.pc = "except"]
    /\ UNCHANGED <<collected, written, stats, notJob>>

\* lines 199-214: the session opens and get_all_stocks answers; without
\* stocks the job returns from inside the try block
JobGetStocks ==
    /\ job.pc = "get_stocks"
    /\ \/ job' = [job EXCEPT !.pc = "except"]
       \/ \E n \in 0..MaxStocks :
            IF n = 0
            THEN job' = [job EXCEPT !.pc = "exit", !.outcome = "returned"]
            ELSE job' = [job EXCEPT !.pc = "enter", !.n = n,
                                    !.batch_size = BATCH_SIZE]
    /\ UNCHANGED <<collected, written, stats, notJob>>

\* lines 43-47: the statistics start with total = len(stocks)
FunctionEntry ==
    /\ job.pc = "enter"
    /\ stats' = [total |-> job.n, successful |-> 0, failed |-> 0]
    /\ job' = [job EXCEPT !.pc = "loop"]
    /\ UNCHANGED <<collected, written, notJob>>

\* lines 50-75: the next batch is cut and its collection tasks are gathered
BatchBegin ==
    /\ job.pc = "loop"
    /\ job.batch_start < job.n
    /\ job' = [job EXCEPT !.pc = "gather",
                          !.batch_end = Min(job.batch_start + job.batch_size, job.n)]
    /\ UNCHANGED <<collected, written, stats, notJob>>

\* lines 64-67: one task of the gather calls collect_market_data
CollectStart(s) ==
    /\ job.pc = "gather"
    /\ s \in Batch
    /\ collected[s] = "pending"
    /\ collected' = [collected EXCEPT ![s] = "running"]
    /\ UNCHANGED <<job, written, stats, notJob>>

\* lines 67-71: the call returns data or None, or raises and is caught
CollectEnd(s) ==
    /\ job.pc = "gather"
    /\ s \in Batch
    /\ collected[s] = "running"
    /\ \E o \in {"data", "None", "caught"} : collected' = [collected EXCEPT ![s] = o]
    /\ UNCHANGED <<job, written, stats, notJob>>

\* a gather that is over with the first task that finishes
GatherDone_FirstCompleted ==
    /\ job.pc = "gather"
    /\ \E s \in Batch : collected[s] \in {"data", "None", "caught"}
    /\ job' = [job EXCEPT !.pc = "store", !.k = job.batch_start + 1]
    /\ UNCHANGED <<collected, written, stats, notJob>>

\* line 75: the gather is over when every task of the batch is
GatherDone ==
    /\ job.pc = "gather"
    /\ \A s \in Batch : collected[s] \in {"data", "None", "caught"}
    /\ job' = [job EXCEPT !.pc = "store", !.k = job.batch_start + 1]
    /\ UNCHANGED <<collected, written, stats, notJob>>

\* lines 78-107: one result of the batch is counted, and stored if it is data
StoreResult ==
    /\ job.pc = "store"
    /\ job.k <= job.batch_end
    /\ \E ok \in BOOLEAN :
         LET isData == collected[job.k] = "data"
         IN  /\ ~isData => ok
             /\ written' = IF isData THEN create_market_data(written, job.k, ok)
                           ELSE written
             /\ stats' = CountResult(stats, IF isData THEN "data" ELSE "None", ok)
    /\ job' = [job EXCEPT !.k = @ + 1, !.handled = @ \cup {job.k}]
    /\ UNCHANGED <<collected, notJob>>

\* lines 109-117: the batch is over; asyncio.sleep(1) before a next batch
BatchEnd ==
    /\ job.pc = "store"
    /\ job.k > job.batch_end
    /\ IF job.batch_end < job.n
       THEN job' = [job EXCEPT !.pc = "pause"]
       ELSE job' = [job EXCEPT !.pc = "loop",
                               !.batch_start = @ + job.batch_size]
    /\ UNCHANGED <<collected, written, stats, notJob>>

BatchPauseOver ==
    /\ job.pc = "pause"
    /\ job' = [job EXCEPT !.pc = "loop", !.batch_start = @ + job.batch_size]
    /\ UNCHANGED <<collected, written, stats, notJob>>

\* line 119: return stats, to the job or to the direct caller
ReturnStats ==
    /\ job.pc = "loop"
    /\ job.batch_start >= job.n
    /\ IF job.entry = "job"
       THEN job' = [job EXCEPT !.pc = "stale", !.statsReturned = TRUE]
       ELSE job' = [job EXCEPT !.pc = "exit", !.outcome = "returned",
                               !.statsReturned = TRUE]
    /\ UNCHANGED <<collected, written, stats, notJob>>

\* lines 216-241: the freshness query, then the session closes
JobStaleCheck ==
    /\ job.pc = "stale"
    /\ \/ job' = [job EXCEPT !.pc = "dispose"]
       \/ job' = [job EXCEPT !.pc = "except"]
    /\ UNCHANGED <<collected, written, stats, notJob>>

\* lines 243-244: the engine is disposed after the session block
JobDispose ==
    /\ job.pc = "dispose"
    /\ \/ job' = [job EXCEPT !.engine = "disposed", !.disposeCalls = @ + 1,
                             !.pc = "exit", !.outcome = "returned"]
       \/ job' = [job EXCEPT !.disposeCalls = @ + 1, !.pc = "except"]
    /\ UNCHANGED <<collected, written, stats, notJob>>

\* lines 246-257: the error is logged, the engine (if there is one) disposed
\* with a failure of dispose swallowed, and the error raised again
JobExcept ==
    /\ job.pc = "except"
    /\ IF job.engine = "none"
       THEN job' = [job EXCEPT !.pc = "exit", !.outcome = "raised"]
       ELSE \/ job' = [job EXCEPT !.engine = "disposed", !.disposeCalls = @ + 1,
                                  !.pc = "exit", !.outcome = "raised"]
            \/ job' = [job EXCEPT !.disposeCalls = @ + 1,
                                  !.pc = "exit", !.outcome = "raised"]
    /\ UNCHANGED <<collected, written, stats, notJob>>

JobNext ==
    \/ JobCreateEngine
    \/ JobGetStocks
    \/ FunctionEntry
    \/ BatchBegin
    \/ \E s \in 1..MaxStocks : CollectStart(s)
    \/ \E s \in 1..MaxStocks : CollectEnd(s)
    \/ GatherDone
    \/ StoreResult
    \/ BatchEnd
    \/ BatchPauseOver
    \/ ReturnStats
    \/ JobStaleCheck
    \/ JobDispose
    \/ JobExcept

NoStats == [total |-> 0, successful |-> 0, failed |-> 0]

JobIdle ==
    /\ job = NewJob("none", "exit", 0, BATCH_SIZE)
    /\ collected = [s \in 1..MaxStocks |-> "pending"]
    /\ written = {}
    /\ stats = NoStats

\* the scheduled job, or a direct call of collect_market_data_for_stocks
\* with a list of stocks and a batch size
JobInit ==
    /\ \/ job = NewJob("job", "create_engine", 0, BATCH_SIZE)
       \/ \E n \in 0..MaxStocks, size \in 1..MaxBatch :
            job = NewJob("direct", "enter", n, size)
    /\ collected = [s \in 1..MaxStocks |-> "pending"]
    /\ written = {}
    /\ stats = NoStats

----------------------------------------------------------------------------
(* The crud, recommendation and application parts *)
----------------------------------------------------------------------------
(* crud/sentiment_data.py: the SentimentData rows and upsert_sentiment_data *)

\* the key of a row: (stock_id, source, timestamp)
SentimentKeys ==
    [stock_id : {1}, source : SentimentSources, timestamp : 1..NumTimestamps]

KeyOf(row) ==
    [stock_id |-> row.stock_id, source |-> row.source, timestamp |-> row.timestamp]

\* the rows a select on the key gives
RowsWithKey(table, key) == {row \in table : KeyOf(row) = key}

\* crud/sentiment_data.py: count(id) over the key, > 0
exists_sentiment_record(table, key) == Cardinality(RowsWithKey(table, key)) > 0

\* crud/sentiment_data.py: add, commit, refresh; the id is a fresh uuid4
create_sentiment_data(table, key, score) ==
    [id |-> Cardinality(table) + 1, stock_id |-> key.stock_id,
     sentiment_score |-> score, source |-> key.source, timestamp |-> key.timestamp]

\* an upsert that overwrites the score of the row it finds
upsert_sentiment_data_LastScoreWins(table, key, score, existing) ==
    IF existing
    THEN LET found == RowsWithKey(table, key) IN
         IF Cardinality(found) = 1
         THEN LET row == [(CHOOSE x \in found : TRUE) EXCEPT !.sentiment_score = score] IN
              [table |-> (table \ found) \cup {row}, returned |-> {row}, raised |-> FALSE]
         ELSE [table |-> table, returned |-> {}, raised |-> TRUE]
    ELSE LET row == create_sentiment_data(table, key, score) IN
         [table |-> table \cup {row}, returned |-> {row}, raised |-> FALSE]

\* crud/sentiment_data.py: what upsert_sentiment_data does once the existence
\* check has answered: scalar_one() of the rows with the key (it raises
\* unless there is exactly one), or create_sentiment_data
upsert_sentiment_data(table, key, score, existing) ==
    IF existing
    THEN LET found == RowsWithKey(table, key) IN
         IF Cardinality(found) = 1
         THEN [table |-> table, returned |-> found, raised |-> FALSE]
         ELSE [table |-> table, returned |-> {}, raised |-> TRUE]
    ELSE LET row == create_sentiment_data(table, key, score) IN
         [table |-> table \cup {row}, returned |-> {row}, raised |-> FALSE]

\* a session between two calls
NoUpsert == [pc |-> "idle", key |-> [stock_id |-> 1, source |-> "news", timestamp |-> 1],
             score |-> 0, existing |-> FALSE]

\* the upsert calls started so far
UpsertsStarted ==
    Len(upserts) + Cardinality({s \in Sessions : ups[s].pc = "checked"})

\* upsert_sentiment_data up to the answer of exists_sentiment_record
UpsertCheck(s, key, score) ==
    /\ ups[s].pc = "idle"
    /\ UpsertsStarted < MaxUpserts
    /\ ups' = [ups EXCEPT ![s] = [pc |-> "checked", key |-> key, score |-> score,
                                  existing |-> exists_sentiment_record(sentiment_data, key)]]
    /\ UNCHANGED <<sentiment_data, upserts, notSent>>

\* the rest of upsert_sentiment_data: the select of the existing row, or the
\* insert and its commit
UpsertReturn(s) ==
    /\ ups[s].pc = "checked"
    /\ LET u == ups[s]
           out == upsert_sentiment_data(sentiment_data, u.key, u.score, u.existing)
       IN  /\ sentiment_data' = out.table
           /\ upserts' = Append(upserts,
                 [session |-> s, key |-> u.key, score |-> u.score,
                  before |-> Cardinality(sentiment_data),
                  after |-> Cardinality(out.table),
                  returned |-> out.returned, raised |-> out.raised])
    /\ ups' = [ups EXCEPT ![s] = NoUpsert]
    /\ UNCHANGED notSent

SentNext ==
    \/ \E s \in Sessions, key \in SentimentKeys, score \in SentimentScores :
           UpsertCheck(s, key, score)
    \/ \E s \in Sessions : UpsertReturn(s)

\* the sessions that call upsert_sentiment_data in this run
SentInit(sessions) ==
    /\ sentiment_data = {}
    /\ ups = [s \in Sessions |-> IF s \in sessions THEN NoUpsert
                                 ELSE [NoUpsert EXCEPT !.pc = "off"]]
    /\ upserts = <<>>

SentIdle == SentInit({})

----------------------------------------------------------------------------
(* crud/stocks.py: the Stock rows, create_stock and upsert_stock *)

\* the optional arguments: sector and fortune_500_rank, None or a value
StockSectors == {None, Some("Tech")}

StockRanks == {None, Some(3)}

\* str.upper() and SQL upper() on the symbols of the model
upper(symbol) ==
    CASE symbol \in {"AAPL", "aapl", "Aapl"} -> "AAPL"
      [] symbol \in {"MSFT", "msft"} -> "MSFT"

\* crud/stocks.py: the rows whose upper-cased symbol is the upper-cased
\* argument; scalar_one_or_none() raises when there are several
get_stock_by_symbol(table, symbol) ==
    LET found == {row \in table : upper(row.symbol) = upper(symbol)} IN
    IF Cardinality(found) > 1
    THEN [row |-> {}, raised |-> TRUE]
    ELSE [row |-> found, raised |-> FALSE]

\* the unique constraint on stocks.symbol
SymbolTaken(table, symbol) == \E row \in table : row.symbol = symbol

\* crud/stocks.py: a new row with a fresh id and the symbol upper-cased; the
\* commit raises IntegrityError when the symbol is taken
create_stock(table, symbol, company_name, sector, fortune_500_rank) ==
    LET stock == [id |-> Cardinality(table) + 1, symbol |-> upper(symbol),
                  company_name |-> company_name, sector |-> sector,
                  fortune_500_rank |-> fortune_500_rank]
    IN  IF SymbolTaken(table, stock.symbol)
        THEN [table |-> table, returned |-> {}, raised |-> TRUE]
        ELSE [table |-> table \cup {stock}, returned |-> {stock}, raised |-> FALSE]

\* an upsert_stock that writes every argument, null or not
upsert_stock_WritesNulls(table, symbol, company_name, sector, fortune_500_rank) ==
    LET found == get_stock_by_symbol(table, symbol) IN
    IF found.raised
    THEN [table |-> table, returned |-> {}, raised |-> TRUE]
    ELSE IF found.row # {}
    THEN LET existing == CHOOSE row \in found.row : TRUE
             updated == [existing EXCEPT !.company_name = company_name,
                                         !.sector = sector,
                                         !.fortune_500_rank = fortune_500_rank]
         IN  [table |-> (table \ {existing}) \cup {updated},
              returned |-> {updated}, raised |-> FALSE]
    ELSE create_stock(table, symbol, company_name, sector, fortune_500_rank)

\* crud/stocks.py: patch the row get_stock_by_symbol finds, or create one
upsert_stock(table, symbol, company_name, sector, fortune_500_rank) ==
    LET found == get_stock_by_symbol(table, symbol) IN
    IF found.raised
    THEN [table |-> table, returned |-> {}, raised |-> TRUE]
    ELSE IF found.row # {}
    THEN LET existing == CHOOSE row \in found.row : TRUE
             updated == [existing EXCEPT
                           !.company_name = company_name,
                           !.sector = IF sector # None THEN sector ELSE @,
                           !.fortune_500_rank =
                               IF fortune_500_rank # None THEN fortune_500_rank ELSE @]
         IN  [table |-> (table \ {existing}) \cup {updated},
              returned |-> {updated}, raised |-> FALSE]
    ELSE create_stock(table, symbol, company_name, sector, fortune_500_rank)

\* what the last call was given, found and came to
StockCall(op, symbol, company_name, sector, fortune_500_rank, out) ==
    [op |-> op, symbol |-> symbol, company_name |-> company_name,
     sector |-> sector, fortune_500_rank |-> fortune_500_rank,
     prior |-> {row \in stock_rows : upper(row.symbol) = upper(symbol)},
     before |-> Cardinality(stock_rows), after |-> Cardinality(out.table),
     returned |-> out.returned, raised |-> out.raised]

CreateStock(symbol, company_name, sector, fortune_500_rank) ==
    LET out == create_stock(stock_rows, symbol, company_name, sector, fortune_500_rank) IN
    /\ stock_rows' = out.table
    /\ stock_call' = StockCall("create_stock", symbol, company_name, sector,
                               fortune_500_rank, out)
    /\ UNCHANGED notStock

UpsertStock(symbol, company_name, sector, fortune_500_rank) ==
    LET out == upsert_stock(stock_rows, symbol, company_name, sector, fortune_500_rank) IN
    /\ stock_rows' = out.table
    /\ stock_call' = StockCall("upsert_stock", symbol, company_name, sector,
                               fortune_500_rank, out)
    /\ UNCHANGED notStock

StockNext ==
    \/ \E symbol \in StockSymbols, name \in CompanyNames,
          sector \in StockSectors, rank \in StockRanks :
           CreateStock(symbol, name, sector, rank)
    \/ \E symbol \in StockSymbols, name \in CompanyNames,
          sector \in StockSectors, rank \in StockRanks :
           UpsertStock(symbol, name, sector, rank)

NoStockCall ==
    [op |-> "none", symbol |-> "AAPL", company_name |-> "", sector |-> None,
     fortune_500_rank |-> None, prior |-> {}, before |-> 0, after |-> 0,
     returned |-> {}, raised |-> FALSE]

\* an empty stocks table
StockIdle ==
    /\ stock_rows = {}
    /\ stock_call = NoStockCall

----------------------------------------------------------------------------
(* services/recommendation_service.py: calculate_risk_level.  Scores,       *)
(* confidences and volatilities are in thousandths.                         *)

\* a float in [0, 1], in thousandths
ONE == 1000

Clamp(x, lo, hi) == IF x < lo THEN lo ELSE IF x > hi THEN hi ELSE x

\* what an awaited computation came to: a value, or an exception
Value(x) == [raised |-> FALSE, value |-> x]
Raises == [raised |-> TRUE, value |-> 0]

\* the weights of the three components, in tenths
volatility_weight == 4
ml_uncertainty_weight == 4
market_conditions_weight == 2

\* market_volatility when market_conditions has none
DEFAULT_MARKET_VOLATILITY == 500

\* the upper ends of the LOW and MEDIUM bands, in ten-thousandths
LOW_MAX == 3300
MEDIUM_MAX == 6600

\* market_conditions is None, or a dict with market_volatility
MarketVolatility(market_conditions) ==
    IF market_conditions = None
    THEN DEFAULT_MARKET_VOLATILITY
    ELSE Clamp(CHOOSE m \in market_conditions : TRUE, 0, ONE)

\* the weighted combination, clamped to [0, 1]; in ten-thousandths
RiskScore(volatility_score, ml_confidence, market_conditions) ==
    Clamp(volatility_score * volatility_weight
            + (ONE - ml_confidence) * ml_uncertainty_weight
            + MarketVolatility(market_conditions) * market_conditions_weight,
          0, 10 * ONE)

\* a mapping whose LOW band leaves out its upper end
RiskLevelOf_StrictLow(risk_score) ==
    IF risk_score < LOW_MAX THEN "low"
    ELSE IF risk_score <= MEDIUM_MAX THEN "medium"
    ELSE "high"

RiskLevelOf(risk_score) ==
    IF risk_score <= LOW_MAX THEN "low"
    ELSE IF risk_score <= MEDIUM_MAX THEN "medium"
    ELSE "high"

\* calculate_risk_level, given what calculate_volatility comes to
calculate_risk_level(ml_confidence, volatility, market_conditions) ==
    IF ~(0 <= ml_confidence /\ ml_confidence <= ONE)
    THEN "medium"
    ELSE IF volatility.raised
    THEN "medium"
    ELSE RiskLevelOf(RiskScore(volatility.value, ml_confidence, market_conditions))

\* the arguments the function is applied to
RiskConfidences == {-1, 0, 424, 425, 599, 600, 800, 1000, 1001, 1500}
RiskVolatilities == {Raises, Value(0), Value(375), Value(376), Value(1000)}
RiskMarkets == {None, Some(-200), Some(0), Some(500), Some(1000), Some(1300)}

NoRiskCall ==
    [pc |-> "off", ml_confidence |-> 0, volatility |-> Value(0),
     market_conditions |-> None, result |-> "none"]

CalculateRiskLevel ==
    /\ risk_call.pc = "called"
    /\ risk_call' = [risk_call EXCEPT
          !.pc = "returned",
          !.result = calculate_risk_level(risk_call.ml_confidence,
                         risk_call.volatility, risk_call.market_conditions)]
    /\ UNCHANGED notRisk

RiskNext == CalculateRiskLevel

RiskInit ==
    \E c \in RiskConfidences, v \in RiskVolatilities, m \in RiskMarkets :
        risk_call = [NoRiskCall EXCEPT !.pc = "called", !.ml_confidence = c,
                                       !.volatility = v, !.market_conditions = m]

RiskIdle == risk_call = NoRiskCall

----------------------------------------------------------------------------
(* services/recommendation_service.py: generate_recommendations *)

\* the ends of the volatility bands, in thousandths
DAILY_MIN_VOLATILITY == 50
WEEKLY_MIN_VOLATILITY == 20
WEEKLY_MAX_VOLATILITY == 600
MONTHLY_MAX_VOLATILITY == 400

\* _volatility_ok_for_holding with a WEEKLY band closed at 0.4
volatility_ok_for_holding_NarrowWeekly(holding_pref, vol) ==
    IF holding_pref = "none" THEN TRUE
    ELSE IF holding_pref = "daily" THEN vol >= DAILY_MIN_VOLATILITY
    ELSE IF holding_pref = "weekly"
    THEN WEEKLY_MIN_VOLATILITY <= vol /\ vol <= MONTHLY_MAX_VOLATILITY
    ELSE vol <= MONTHLY_MAX_VOLATILITY

\* _volatility_ok_for_holding; holding_pref is "none" when the user has no
\* preferences row or no holding period
volatility_ok_for_holding(holding_pref, vol) ==
    IF holding_pref = "none" THEN TRUE
    ELSE IF holding_pref = "daily" THEN vol >= DAILY_MIN_VOLATILITY
    ELSE IF holding_pref = "weekly"
    THEN WEEKLY_MIN_VOLATILITY <= vol /\ vol <= WEEKLY_MAX_VOLATILITY
    ELSE vol <= MONTHLY_MAX_VOLATILITY

\* float(agg) if agg is not None else 0.0, and 0.0 when the query raises
SentimentOf(agg) ==
    IF agg.raised \/ agg.value = None THEN 0
    ELSE CHOOSE x \in agg.value : TRUE

risk_rank == [low |-> 0, medium |-> 1, high |-> 2]

\* a sort key that leaves the risk level out
SortKeyLess_IgnoresRisk(a, b) ==
    \/ a.confidence > b.confidence
    \/ a.confidence = b.confidence /\ a.sentiment > b.sentiment

\* the sort key (-confidence, -sentiment, risk_rank) of a is below that of b
SortKeyLess(a, b) ==
    \/ a.confidence > b.confidence
    \/ a.confidence = b.confidence /\ a.sentiment > b.sentiment
    \/ /\ a.confidence = b.confidence
       /\ a.sentiment = b.sentiment
       /\ risk_rank[a.risk_level] < risk_rank[b.risk_level]

\* x put into the sorted list s behind every element that is not above it
SortedInsert(s, x) ==
    LET k == Cardinality({i \in 1..Len(s) : ~SortKeyLess(x, s[i])}) IN
    SubSeq(s, 1, k) \o <<x>> \o SubSeq(s, k + 1, Len(s))

RECURSIVE SortCandidates(_)
\* list.sort(key=...): stable
SortCandidates(c) ==
    IF c = <<>> THEN <<>>
    ELSE SortedInsert(SortCandidates(SubSeq(c, 1, Len(c) - 1)), c[Len(c)])

\* candidates[: max(0, int(daily_target_count))]
SelectTop(c, daily_target_count) ==
    SubSeq(c, 1, Min(Len(c), IF daily_target_count > 0 THEN daily_target_count ELSE 0))

\* the users recommendations are generated for, and what
\* datetime.now(timezone.utc) can read when the rows are made
GenUsers == {1, 2}
GenTimes == {1, 2}

\* the Recommendation row of a selected candidate: the constructor is given
\* the user, the candidate's fields and the timestamp of the run, and no
\* holding_period
RecommendationOf(item, user_id, created_at) ==
    [user_id |-> user_id, stock_id |-> item.stock_id, signal |-> item.signal,
     confidence_score |-> item.confidence, sentiment_score |-> item.sentiment,
     risk_level |-> item.risk_level, holding_period |-> "not passed",
     created_at |-> created_at]

NoGeneration ==
    [pc |-> "off", user_id |-> 0, holding_pref |-> "none", daily_target_count |-> 0,
     market_conditions |-> None, stocks |-> 0, stock |-> 0, seen |-> <<>>,
     candidates |-> <<>>, persisted |-> <<>>, outcome |-> "none"]

\* a stock-level exception handler that gives up on the whole call
OnStockException_Aborts(g, stage, volatility) ==
    [g EXCEPT !.pc = "done", !.outcome = "raised",
              !.seen = Append(@, [failed |-> stage, volatility |-> volatility,
                                  candidate |-> FALSE])]

\* except Exception: log, continue
OnStockException(g, stage, volatility) ==
    [g EXCEPT !.stock = @ + 1,
              !.seen = Append(@, [failed |-> stage, volatility |-> volatility,
                                  candidate |-> FALSE])]

\* the body of the loop for one stock: inference, sentiment, volatility,
\* the holding-period filter, the risk level
ProcessStock(g, inference, agg, volatility, risk_raises) ==
    IF inference.raised THEN OnStockException(g, "inference", None)
    ELSE IF volatility.raised THEN OnStockException(g, "volatility", None)
    ELSE IF ~volatility_ok_for_holding(g.holding_pref, volatility.value)
    THEN [g EXCEPT !.stock = @ + 1,
                   !.seen = Append(@, [failed |-> "none",
                                       volatility |-> Some(volatility.value),
                                       candidate |-> FALSE])]
    ELSE IF risk_raises THEN OnStockException(g, "risk", Some(volatility.value))
    ELSE [g EXCEPT
            !.stock = @ + 1,
            !.seen = Append(@, [failed |-> "none",
                                volatility |-> Some(volatility.value),
                                candidate |-> TRUE]),
            !.candidates = Append(@,
               [stock_id |-> g.stock, signal |-> inference.value.signal,
                confidence |-> inference.value.confidence_score,
                sentiment |-> SentimentOf(agg),
                risk_level |-> calculate_risk_level(
                                  inference.value.confidence_score, volatility,
                                  g.market_conditions)])]

\* get_all_stocks and get_user_preferences; no stocks: return []
GenLoadStocks ==
    /\ gen.pc = "start"
    /\ gen' = IF gen.stocks = 0
              THEN [gen EXCEPT !.pc = "done", !.outcome = "returned"]
              ELSE [gen EXCEPT !.pc = "loop", !.stock = 1]
    /\ UNCHANGED <<gen_inputs, notGen>>

\* one turn of the loop over the stocks
GenProcessStock ==
    /\ gen.pc = "loop"
    /\ gen.stock <= gen.stocks
    /\ \E inference \in gen_inputs.inferences, agg \in gen_inputs.sentiments,
          volatility \in gen_inputs.volatilities, risk_raises \in gen_inputs.risk_raises :
           \* what the code does not get to is not drawn
           /\ inference.raised =>
                 /\ agg = CHOOSE a \in gen_inputs.sentiments : TRUE
                 /\ volatility = CHOOSE v \in gen_inputs.volatilities : TRUE
           /\ (inference.raised \/ volatility.raised
                 \/ ~volatility_ok_for_holding(gen.holding_pref, volatility.value)) =>
                 ~risk_raises
           /\ gen' = ProcessStock(gen, inference, agg, volatility, risk_raises)
    /\ UNCHANGED <<gen_inputs, notGen>>

\* after the loop: no candidates: return []; else sort, select, add, commit
GenPersist ==
    /\ gen.pc = "loop"
    /\ gen.stock > gen.stocks
    /\ \E utcnow \in GenTimes :
       LET selected == SelectTop(SortCandidates(gen.candidates), gen.daily_target_count) IN
       gen' = [gen EXCEPT
                 !.pc = "done", !.outcome = "returned",
                 !.persisted = IF gen.candidates = <<>> THEN <<>>
                               ELSE [i \in 1..Len(selected) |->
                                       RecommendationOf(selected[i], gen.user_id, utcnow)]]
    /\ UNCHANGED <<gen_inputs, notGen>>

GenNext ==
    \/ GenLoadStocks
    \/ GenProcessStock
    \/ GenPersist

Inference(confidence) == Value([signal |-> "buy", confidence_score |-> confidence])

\* stocks of varied confidence and sentiment, with exceptions, for a user
\* with no preferences
RankingInputs ==
    [inferences |-> {Raises, Inference(800), Inference(950)},
     sentiments |-> {Raises, Value(None), Value(Some(500))},
     volatilities |-> {Raises, Value(100), Value(500)},
     risk_raises |-> BOOLEAN,
     holding_prefs |-> {"none"},
     targets |-> (-1)..MaxTarget]

\* stocks at the ends of the volatility bands, for every holding period
FilterInputs ==
    [inferences |-> {Inference(800)},
     sentiments |-> {Value(None)},
     volatilities |-> {Value(19), Value(20), Value(49), Value(50),
                       Value(400), Value(401), Value(600), Value(601)},
     risk_raises |-> {FALSE},
     holding_prefs |-> {"none", "daily", "weekly", "monthly"},
     targets |-> {1, MaxGenStocks}]

GenInit(inputs) ==
    /\ gen_inputs = inputs
    /\ \E pref \in inputs.holding_prefs, target \in inputs.targets,
          n \in 0..MaxGenStocks, user_id \in GenUsers :
           gen = [NoGeneration EXCEPT !.pc = "start", !.user_id = user_id,
                                      !.holding_pref = pref,
                                      !.daily_target_count = target, !.stocks = n]

NoInputs ==
    [inferences |-> {}, sentiments |-> {}, volatilities |-> {}, risk_raises |-> {},
     holding_prefs |-> {}, targets |-> {}]

GenIdle ==
    /\ gen = NoGeneration
    /\ gen_inputs = NoInputs

----------------------------------------------------------------------------
(* lifetime.py: startup and the scheduler it starts.  A job is due once    *)
(* for every firing time of its cron trigger that has passed unprocessed;  *)
(* the scheduler, when it gets to a job, submits its due firings subject   *)
(* to the job's coalesce and max_instances.                                *)

\* the minutes of the hour at which the three triggers fire
MARKET_DATA_MINUTE == 0
SENTIMENT_MINUTE == 5
RECOMMENDATIONS_MINUTE == 10

\* an add_job that lets runs overlap and replays every missed firing
CronJob_Unguarded(id, minute) ==
    [id |-> id, trigger |-> "cron", hour |-> "*", minute |-> minute,
     max_instances |-> 2, coalesce |-> FALSE]

\* scheduler.add_job(func, "cron", hour="*", minute=..., id=...,
\* max_instances=1, coalesce=True)
CronJob(id, minute) ==
    [id |-> id, trigger |-> "cron", hour |-> "*", minute |-> minute,
     max_instances |-> 1, coalesce |-> TRUE]

\* the add_job calls of startup, in order
StartupJobs ==
    <<CronJob("market_data_collection", MARKET_DATA_MINUTE),
      CronJob("sentiment_collection", SENTIMENT_MINUTE),
      CronJob("recommendations_generation", RECOMMENDATIONS_MINUTE)>>

JobIds == {"market_data_collection", "sentiment_collection",
           "recommendations_generation"}

FiringMinutes == {MARKET_DATA_MINUTE, SENTIMENT_MINUTE, RECOMMENDATIONS_MINUTE}

\* the firing minute that follows minute m
NextFiring(m) ==
    IF \E x \in FiringMinutes : x > m
    THEN CHOOSE x \in FiringMinutes : x > m /\ \A y \in FiringMinutes : y > m => x <= y
    ELSE CHOOSE x \in FiringMinutes : \A y \in FiringMinutes : x <= y

NoWake == [id |-> "none", backlog |-> 0, running |-> 0, missed |-> FALSE,
           submitted |-> 0]

NoScheduler ==
    [pc |-> "off", started |-> FALSE, jobs |-> {}, minute |-> 59,
     due |-> [j \in JobIds |-> 0], running |-> [j \in JobIds |-> 0],
     wake |-> NoWake]

\* startup: the scheduler is made, the three jobs are added and it is
\* started; an exception on the way is logged and leaves it not started,
\* with the jobs added before it
Startup(added, ok) ==
    /\ sched.pc = "startup"
    /\ sched' = [sched EXCEPT
          !.pc = IF ok THEN "running" ELSE "failed",
          !.started = ok,
          !.jobs = {StartupJobs[i] : i \in 1..(IF ok THEN Len(StartupJobs) ELSE added)}]
    /\ UNCHANGED notSched

\* time passes to the next firing minute: the jobs of that minute are due
\* once more
SchedTick ==
    /\ sched.pc = "running"
    /\ LET m == NextFiring(sched.minute) IN
       /\ \A cron \in sched.jobs : cron.minute = m => sched.due[cron.id] < MaxBacklog
       /\ sched' = [sched EXCEPT
             !.minute = m,
             !.due = [j \in JobIds |->
                        IF \E cron \in sched.jobs : cron.id = j /\ cron.minute = m
                        THEN @[j] + 1 ELSE @[j]]]
    /\ UNCHANGED notSched

\* the runs a job's due firings come to: one for the latest when it
\* coalesces, else one for each; none while max_instances runs are going,
\* and none when the firing is older than the misfire grace time
RunsSubmitted(cron, due, running, missed) ==
    IF running >= cron.max_instances \/ missed THEN 0
    ELSE IF cron.coalesce THEN 1
    ELSE Min(due, cron.max_instances - running)

\* the scheduler processes a job that is due
ProcessJob(cron, missed) ==
    /\ sched.pc = "running"
    /\ cron \in sched.jobs
    /\ sched.due[cron.id] > 0
    /\ LET n == RunsSubmitted(cron, sched.due[cron.id], sched.running[cron.id], missed) IN
       sched' = [sched EXCEPT
          !.due[cron.id] = 0,
          !.running[cron.id] = @ + n,
          !.wake = [id |-> cron.id, backlog |-> sched.due[cron.id],
                    running |-> sched.running[cron.id], missed |-> missed,
                    submitted |-> n]]
    /\ UNCHANGED notSched

\* a run of a job ends
RunEnds(id) ==
    /\ sched.pc = "running"
    /\ sched.running[id] > 0
    /\ sched' = [sched EXCEPT !.running[id] = @ - 1]
    /\ UNCHANGED notSched

SchedNext ==
    \/ \E added \in 0..Len(StartupJobs), ok \in BOOLEAN : Startup(added, ok)
    \/ SchedTick
    \/ \E cron \in sched.jobs, missed \in BOOLEAN : ProcessJob(cron, missed)
    \/ \E id \in JobIds : RunEnds(id)

SchedInit == sched = [NoScheduler EXCEPT !.pc = "startup"]

SchedIdle == sched = NoScheduler

----------------------------------------------------------------------------
(* tasks/recommendations.py: recommendations_job *)

\* what scheduled_generation can come to for one user: an exception, or the
\* number of recommendations created
GenerationOutcomes == {Raises} \cup {Value(n) : n \in 0..MaxCreated}

NoRecJob ==
    [pc |-> "off", engine |-> "none", dispose_calls |-> 0, users |-> 0,
     user |-> 0, generated |-> <<>>, total_created |-> 0, logged |-> {},
     outcome |-> "none"]

\* the finally clause: dispose the engine if there is one; an exception of
\* dispose is swallowed
Finally(j, outcome) ==
    [j EXCEPT !.pc = "exit", !.outcome = outcome,
              !.engine = IF @ = "open" THEN "disposed" ELSE @,
              !.dispose_calls = IF j.engine = "open" THEN @ + 1 ELSE @]

\* a per-user handler that lets the exception out of the loop
OnGenerationError_Propagates(j) == Finally(j, "raised")

\* except Exception: log and go to the next user
OnGenerationError(j) ==
    [j EXCEPT !.user = @ + 1, !.generated = Append(@, Raises)]

\* create_async_engine and sessionmaker
RecJobCreateEngine(ok) ==
    /\ rjob.pc = "create_engine"
    /\ rjob' = IF ok THEN [rjob EXCEPT !.pc = "fetch_users", !.engine = "open"]
               ELSE Finally(rjob, "raised")
    /\ UNCHANGED notRjob

\* the session is opened and the users are selected; no users: return
RecJobFetchUsers(ok, n) ==
    /\ rjob.pc = "fetch_users"
    /\ rjob' = IF ~ok THEN Finally(rjob, "raised")
               ELSE IF n = 0 THEN Finally([rjob EXCEPT !.logged = @ \cup {"no_users"}],
                                          "returned")
               ELSE [rjob EXCEPT !.pc = "loop", !.users = n, !.user = 1]
    /\ UNCHANGED notRjob

\* one turn of the loop over the users
RecJobGenerate(created) ==
    /\ rjob.pc = "loop"
    /\ rjob.user <= rjob.users
    /\ rjob' = IF created.raised
               THEN OnGenerationError(rjob)
               ELSE [rjob EXCEPT !.user = @ + 1,
                                 !.generated = Append(@, created),
                                 !.total_created = @ + created.value]
    /\ UNCHANGED notRjob

\* after the loop: the totals are logged, the session closes, finally
RecJobComplete ==
    /\ rjob.pc = "loop"
    /\ rjob.user > rjob.users
    /\ rjob' = Finally([rjob EXCEPT !.logged = @ \cup {"completed"}], "returned")
    /\ UNCHANGED notRjob

RjobNext ==
    \/ \E ok \in BOOLEAN : RecJobCreateEngine(ok)
    \/ \E ok \in BOOLEAN, n \in 0..MaxUsers : RecJobFetchUsers(ok, n)
    \/ \E created \in GenerationOutcomes : RecJobGenerate(created)
    \/ RecJobComplete

RjobInit == rjob = [NoRecJob EXCEPT !.pc = "create_engine"]

RjobIdle == rjob = NoRecJob

----------------------------------------------------------------------------
(* health.py: check_health *)

HTTP_200_OK == 200
HTTP_503_SERVICE_UNAVAILABLE == 503

NoHealthCheck ==
    [pc |-> "idle", database_is_online |-> FALSE, status_code |-> HTTP_200_OK,
     opened |-> FALSE, selected |-> FALSE]

\* an except clause that leaves the status code alone
OnHealthException_Keeps200(h) ==
    [h EXCEPT !.pc = "respond", !.database_is_online = FALSE]

\* except Exception: database_is_online = False, status 503
OnHealthException(h) ==
    [h EXCEPT !.pc = "respond", !.database_is_online = FALSE,
              !.status_code = HTTP_503_SERVICE_UNAVAILABLE]

\* a request comes in; async_session_maker() opens a session, or raises
HealthOpenSession(ok) ==
    /\ health.pc = "idle"
    /\ Len(health_responses) < MaxHealthChecks
    /\ health' = IF ok THEN [NoHealthCheck EXCEPT !.pc = "execute", !.opened = TRUE]
                 ELSE OnHealthException(NoHealthCheck)
    /\ UNCHANGED <<health_responses, notHealth>>

\* session.execute(select(text("1"))) and result.scalar()
HealthSelect(ok) ==
    /\ health.pc = "execute"
    /\ health' = IF ok THEN [health EXCEPT !.pc = "respond", !.selected = TRUE,
                                           !.database_is_online = TRUE]
                 ELSE OnHealthException(health)
    /\ UNCHANGED <<health_responses, notHealth>>

\* return APIHealth(database_is_online=...)
HealthRespond ==
    /\ health.pc = "respond"
    /\ health_responses' = Append(health_responses,
          [status_code |-> health.status_code,
           database_is_online |-> health.database_is_online,
           opened |-> health.opened, selected |-> health.selected])
    /\ health' = NoHealthCheck
    /\ UNCHANGED notHealth

HealthNext ==
    \/ \E ok \in BOOLEAN : HealthOpenSession(ok)
    \/ \E ok \in BOOLEAN : HealthSelect(ok)
    \/ HealthRespond

HealthIdle ==
    /\ health = NoHealthCheck
    /\ health_responses = <<>>

----------------------------------------------------------------------------
(* api/v1/endpoints/ml.py: POST /ml/predict *)

HTTP_400_BAD_REQUEST == 400
HTTP_500_INTERNAL_SERVER_ERROR == 500

\* the classes an exception of a class is an instance of
ExceptionBases ==
    [ValueError |-> {"ValueError", "Exception"},
     UnicodeDecodeError |-> {"UnicodeDecodeError", "ValueError", "Exception"},
     RuntimeError |-> {"RuntimeError", "Exception"},
     NotImplementedError |-> {"NotImplementedError", "RuntimeError", "Exception"},
     KeyError |-> {"KeyError", "Exception"},
     Exception |-> {"Exception"}]

\* what str(e) of a raised exception can be
ErrorMessages ==
    {"No market data available for stock", "Models not loaded",
     "connection refused: db-internal:5432"}

\* what the try block of predict comes to: the response is built, or
\* predict_stock or the conversion raises
PredictOutcomes ==
    {[raised |-> FALSE, class |-> "none", message |-> ""]}
      \cup [raised : {TRUE}, class : DOMAIN ExceptionBases, message : ErrorMessages]

\* a handler whose last clause puts str(e) into the detail
predict_LeaksInternals(outcome) ==
    IF ~outcome.raised
    THEN [status_code |-> HTTP_200_OK, detail |-> ""]
    ELSE IF "ValueError" \in ExceptionBases[outcome.class]
    THEN [status_code |-> HTTP_400_BAD_REQUEST, detail |-> outcome.message]
    ELSE IF "RuntimeError" \in ExceptionBases[outcome.class]
    THEN [status_code |-> HTTP_503_SERVICE_UNAVAILABLE,
          detail |-> "ML models not available. Please ensure models are loaded at startup."]
    ELSE [status_code |-> HTTP_500_INTERNAL_SERVER_ERROR, detail |-> outcome.message]

\* predict: the except clauses in order, ValueError, RuntimeError, Exception
predict(outcome) ==
    IF ~outcome.raised
    THEN [status_code |-> HTTP_200_OK, detail |-> ""]
    ELSE IF "ValueError" \in ExceptionBases[outcome.class]
    THEN [status_code |-> HTTP_400_BAD_REQUEST, detail |-> outcome.message]
    ELSE IF "RuntimeError" \in ExceptionBases[outcome.class]
    THEN [status_code |-> HTTP_503_SERVICE_UNAVAILABLE,
          detail |-> "ML models not available. Please ensure models are loaded at startup."]
    ELSE [status_code |-> HTTP_500_INTERNAL_SERVER_ERROR,
          detail |-> "An error occurred during prediction."]

\* one request served
Predict(outcome) ==
    /\ Len(predictions) < MaxPredicts
    /\ predictions' = Append(predictions,
                             [outcome |-> outcome, response |-> predict(outcome)])
    /\ UNCHANGED notMl

MlNext == \E outcome \in PredictOutcomes : Predict(outcome)

MlIdle == predictions = <<>>

----------------------------------------------------------------------------
(* users/manager.py: validate_password.  A password is a sequence of       *)
(* characters: a letter, a digit, or a special character.                  *)

MIN_PASSWORD_LENGTH == 8

PasswordChars == {"a", "1", "@"}

\* user.email: none, or an address (a letter, "@", a letter)
UserEmails == {<<>>, <<"a", "@", "a">>}

\* e in p
IsSubstring(e, p) ==
    \E i \in 0..(Len(p) - Len(e)) : SubSeq(p, i + 1, i + Len(e)) = e

\* str.isalpha and str.isnumeric: false on the empty string
isalpha(p) == p # <<>> /\ \A i \in 1..Len(p) : p[i] = "a"
isnumeric(p) == p # <<>> /\ \A i \in 1..Len(p) : p[i] = "1"

\* a validate_password that checks the complexity rules before the length
validate_password_LengthLast(password, email) ==
    IF email # <<>> /\ IsSubstring(email, password)
    THEN "Password should not contain e-mail"
    ELSE IF isalpha(password)
    THEN "Password should contain at least one number or special characters(@#*)"
    ELSE IF isnumeric(password)
    THEN "Password should not contain only numeric values"
    ELSE IF Len(password) < MIN_PASSWORD_LENGTH
    THEN "Password should be at least 8 characters"
    ELSE "accepted"

\* validate_password: the message of the first condition that holds, in the
\* order the conditions dict was filled; "accepted" when it returns
validate_password(password, email) ==
    IF Len(password) < MIN_PASSWORD_LENGTH
    THEN "Password should be at least 8 characters"
    ELSE IF email # <<>> /\ IsSubstring(email, password)
    THEN "Password should not contain e-mail"
    ELSE IF isalpha(password)
    THEN "Password should contain at least one number or special characters(@#*)"
    ELSE IF isnumeric(password)
    THEN "Password should not contain only numeric values"
    ELSE "accepted"

NoValidation == [pc |-> "off", password |-> <<>>, email |-> <<>>, result |-> "none"]

ValidatePassword ==
    /\ pw.pc = "called"
    /\ pw' = [pw EXCEPT !.pc = "done",
                        !.result = validate_password(pw.password, pw.email)]
    /\ UNCHANGED notPw

PwNext == ValidatePassword

PwInit ==
    \E n \in 0..MaxPasswordLen :
      \E password \in [1..n -> PasswordChars], email \in UserEmails :
        pw = [NoValidation EXCEPT !.pc = "called", !.password = password,
                                  !.email = email]

PwIdle == pw = NoValidation

----------------------------------------------------------------------------
(* services/email/__init__.py: get_mailer *)

\* an optional string setting: unset, empty, or a value
SettingValues == {None, Some(""), Some("value")}

\* the truth value of an optional string
Truthy(x) == x # None /\ x # Some("")

\* get_mailer
get_mailer(settings) ==
    IF Truthy(settings.RESEND_API_KEY) THEN "ResendProvider"
    ELSE IF settings.EMAILS_ENABLED THEN "SES"
    ELSE "Null"

NoSettings ==
    [RESEND_API_KEY |-> None, EMAILS_ENABLED |-> FALSE, SES_ACCESS_KEY |-> None,
     SES_SECRET_KEY |-> None, SES_REGION |-> None]

\* mailer = get_mailer(), when the module is imported
GetMailer ==
    /\ mail.mailer = "unset"
    /\ mail' = [mail EXCEPT !.mailer = get_mailer(mail.settings)]
    /\ UNCHANGED notMail

MailNext == GetMailer

MailInit ==
    \E key, access, secret, region \in SettingValues, enabled \in BOOLEAN :
        mail = [settings |-> [RESEND_API_KEY |-> key, EMAILS_ENABLED |-> enabled,
                              SES_ACCESS_KEY |-> access, SES_SECRET_KEY |-> secret,
                              SES_REGION |-> region],
                mailer |-> "unset"]

MailIdle == mail = [settings |-> NoSettings, mailer |-> "off"]

----------------------------------------------------------------------------
(* models/user_stock_tracking.py and alembic/versions/                     *)
(* add_user_stock_tracking.py: the user_stock_tracking table.  The         *)
(* migration creates the unique constraint on (user_id, stock_id); the     *)
(* table made from the model's metadata (Base.metadata.create_all) has     *)
(* only the index on user_id.                                              *)

TrackingUsers == {1, 2}
TrackingStocks == {1, 2}

\* the unique constraint uq_user_stock_tracking_user_stock
PairTaken(rows, user_id, stock_id) ==
    \E row \in rows : row.user_id = user_id /\ row.stock_id = stock_id

\* select count(UserStockTracking.id) where user_id = ...
TrackedCount(rows, user_id) == Cardinality({row \in rows : row.user_id = user_id})

\* session.add(UserStockTracking(...)) and commit; rejected is the
\* IntegrityError of the last insert
InsertTracking(user_id, stock_id) ==
    /\ tracking.schema # "none"
    /\ Cardinality(tracking.rows) < MaxTrackingRows
    /\ IF tracking.schema = "migration" /\ PairTaken(tracking.rows, user_id, stock_id)
       THEN tracking' = [tracking EXCEPT !.rejected = TRUE]
       ELSE tracking' = [tracking EXCEPT
               !.rows = @ \cup {[id |-> Cardinality(tracking.rows) + 1,
                                 user_id |-> user_id, stock_id |-> stock_id]},
               !.rejected = FALSE]
    /\ UNCHANGED notTrack

TrackNext ==
    \E user_id \in TrackingUsers, stock_id \in TrackingStocks :
        InsertTracking(user_id, stock_id)

\* an empty table, made by the migration or from the metadata
TrackInit ==
    \E schema \in {"migration", "metadata"} :
        tracking = [schema |-> schema, rows |-> {}, rejected |-> FALSE]

TrackIdle == tracking = [schema |-> "none", rows |-> {}, rejected |-> FALSE]

----------------------------------------------------------------------------
(* crud/users.py: get_user_preferences and upsert_user_preferences over    *)
(* the user_preferences table, whose user_id is unique                     *)

PrefUsers == {1, 2}
HoldingPeriodEnum == {"daily", "weekly", "monthly"}
RiskToleranceEnum == {"low", "medium", "high"}

\* UserPreferencesUpdate: each field given or left out
UserPreferencesUpdate ==
    [holding_period : {None} \cup {Some(h) : h \in HoldingPeriodEnum},
     risk_tolerance : {None} \cup {Some(r) : r \in RiskToleranceEnum}]

\* x or default
OrDefault(x, default) == IF x = None THEN default ELSE CHOOSE v \in x : TRUE

\* get_user_preferences: the rows of the user (scalar_one_or_none: at most
\* one, by the unique constraint)
get_user_preferences(rows, user_id) == {row \in rows : row.user_id = user_id}

\* an upsert whose update branch fills the fields left out with the defaults
upsert_user_preferences_ResetsMissing(rows, user_id, preferences, new_id) ==
    LET existing == get_user_preferences(rows, user_id)
        row == IF existing # {}
               THEN [(CHOOSE e \in existing : TRUE) EXCEPT
                        !.holding_period = OrDefault(preferences.holding_period, "daily"),
                        !.risk_tolerance = OrDefault(preferences.risk_tolerance, "medium")]
               ELSE [id |-> new_id, user_id |-> user_id,
                     holding_period |-> OrDefault(preferences.holding_period, "daily"),
                     risk_tolerance |-> OrDefault(preferences.risk_tolerance, "medium")]
    IN  [rows |-> (rows \ existing) \cup {row}, result |-> row]

\* upsert_user_preferences: the table after the commit and the row returned
upsert_user_preferences(rows, user_id, preferences, new_id) ==
    LET existing == get_user_preferences(rows, user_id)
        row == IF existing # {}
               THEN LET e == CHOOSE e \in existing : TRUE IN
                    [e EXCEPT
                        !.holding_period = OrDefault(preferences.holding_period, e.holding_period),
                        !.risk_tolerance = OrDefault(preferences.risk_tolerance, e.risk_tolerance)]
               ELSE [id |-> new_id, user_id |-> user_id,
                     holding_period |-> OrDefault(preferences.holding_period, "daily"),
                     risk_tolerance |-> OrDefault(preferences.risk_tolerance, "medium")]
    IN  [rows |-> (rows \ existing) \cup {row}, result |-> row]

NoPrefCall == [user_id |-> 0, preferences |-> [holding_period |-> None, risk_tolerance |-> None],
               existing |-> {}, result |-> {}]

\* one call; uuid4() is an id no row has had
UpsertUserPreferences(user_id, preferences) ==
    /\ prefs.calls < MaxPrefCalls
    /\ LET r == upsert_user_preferences(prefs.rows, user_id, preferences, prefs.calls + 1) IN
       prefs' = [rows |-> r.rows, calls |-> prefs.calls + 1,
                 last |-> [user_id |-> user_id, preferences |-> preferences,
                           existing |-> get_user_preferences(prefs.rows, user_id),
                           result |-> {r.result}]]
    /\ UNCHANGED notPrefs

PrefsNext ==
    \E user_id \in PrefUsers, preferences \in UserPreferencesUpdate :
        UpsertUserPreferences(user_id, preferences)

PrefsInit == prefs = [rows |-> {}, calls |-> 0, last |-> NoPrefCall]

PrefsIdle == prefs = [rows |-> {}, calls |-> -1, last |-> NoPrefCall]

----------------------------------------------------------------------------
(* lifetime.py: startup().  Three phases, each in its own try block with   *)
(* `except Exception`; between the scheduler and the ML models the         *)
(* ml-models directories are looked at outside any try block.              *)

StartupPhases == <<"superuser", "scheduler", "ml_models">>

\* what os.path.exists and os.listdir find of one ml-models path: listdir
\* raises OSError on a path that exists and cannot be listed
DirStates == {"listed", "missing", "unlistable"}

\* the three paths looked at: the working directory's, the one relative to
\* the backend directory, the one at the backend root
MlModelsPaths == 1..3

\* what initialize_models reports per model: loaded or not
ModelReports == [neural_network : BOOLEAN, random_forest : BOOLEAN]

NoStartup ==
    [pc |-> "off", attempted |-> <<>>, failed |-> {}, logged |-> {},
     jobs |-> 0, running |-> FALSE, dirs |-> <<>>, models |-> None,
     outcome |-> "none"]

\* a handler that lets the error of a phase out of startup()
OnPhaseError_Propagates(b, phase, next) ==
    [b EXCEPT !.failed = @ \cup {phase}, !.pc = "done", !.outcome = "raised"]

\* except Exception as e: logger.error(...); startup goes on after the block
OnPhaseError(b, phase, next) ==
    [b EXCEPT !.failed = @ \cup {phase}, !.logged = @ \cup {phase}, !.pc = next]

\* lines 18-22: create_superuser
StartupSuperuser ==
    /\ boot.pc = "superuser"
    /\ LET b == [boot EXCEPT !.attempted = Append(@, "superuser")] IN
       \/ boot' = [b EXCEPT !.pc = "scheduler"]
       \/ boot' = OnPhaseError(b, "superuser", "scheduler")
    /\ UNCHANGED notBoot

\* lines 28-75: the scheduler is made, the three jobs are added, it is
\* started; added is the number of add_job calls that returned
StartupScheduler ==
    /\ boot.pc = "scheduler"
    /\ LET b == [boot EXCEPT !.attempted = Append(@, "scheduler")] IN
       \/ boot' = [b EXCEPT !.jobs = 3, !.running = TRUE, !.pc = "diagnostics"]
       \/ \E added \in 0..3 :
            boot' = OnPhaseError([b EXCEPT !.jobs = added], "scheduler", "diagnostics")
    /\ UNCHANGED notBoot

\* lines 83-110: the directories are logged; an error of os.listdir leaves
\* startup()
StartupDiagnostics ==
    /\ boot.pc = "diagnostics"
    /\ \E dirs \in [MlModelsPaths -> DirStates] :
         IF \E p \in MlModelsPaths : dirs[p] = "unlistable"
         THEN boot' = [boot EXCEPT !.dirs = dirs, !.pc = "done", !.outcome = "raised"]
         ELSE boot' = [boot EXCEPT !.dirs = dirs, !.pc = "ml_models"]
    /\ UNCHANGED notBoot

\* lines 112-150: initialize_models in the executor, its report logged
StartupModels ==
    /\ boot.pc = "ml_models"
    /\ LET b == [boot EXCEPT !.attempted = Append(@, "ml_models")] IN
       \/ \E report \in ModelReports :
            boot' = [b EXCEPT !.models = Some(report), !.pc = "done",
                              !.outcome = "returned"]
       \/ boot' = [OnPhaseError(b, "ml_models", "done") EXCEPT !.outcome = "returned"]
    /\ UNCHANGED notBoot

BootNext ==
    \/ StartupSuperuser
    \/ StartupScheduler
    \/ StartupDiagnostics
    \/ StartupModels

BootInit == boot = [NoStartup EXCEPT !.pc = "superuser"]

BootIdle == boot = NoStartup

----------------------------------------------------------------------------
(* The specifications *)

vars == <<now, avVars, tierVars, scrapeVars, jobVars, sentVars, stockVars, riskVars, genVars, schedVars, rjobVars, healthVars, mlVars, pwVars, mailVars, trackVars, prefsVars, bootVars>>

\* one call on its own, against every response of the provider
InitRetry ==
    /\ AVInit({1}, Responses)
    /\ TierIdle
    /\ ScrapeIdle
    /\ JobIdle
    /\ SentIdle
    /\ StockIdle
    /\ RiskIdle
    /\ GenIdle
    /\ SchedIdle
    /\ RjobIdle
    /\ HealthIdle
    /\ MlIdle
    /\ PwIdle
    /\ MailIdle
    /\ TrackIdle
    /\ PrefsIdle
    /\ BootIdle
SpecRetry == InitRetry /\ [][AVNext]_vars

\* the calls of one batch, gathered concurrently
InitLimiter ==
    /\ AVInit(Tasks, FewResponses)
    /\ TierIdle
    /\ ScrapeIdle
    /\ JobIdle
    /\ SentIdle
    /\ StockIdle
    /\ RiskIdle
    /\ GenIdle
    /\ SchedIdle
    /\ RjobIdle
    /\ HealthIdle
    /\ MlIdle
    /\ PwIdle
    /\ MailIdle
    /\ TrackIdle
    /\ PrefsIdle
    /\ BootIdle
SpecLimiter == InitLimiter /\ [][AVNext]_vars

\* concurrent add-tracked-stock requests of one user
InitTier ==
    /\ TierInit
    /\ AVIdle
    /\ ScrapeIdle
    /\ JobIdle
    /\ SentIdle
    /\ StockIdle
    /\ RiskIdle
    /\ GenIdle
    /\ SchedIdle
    /\ RjobIdle
    /\ HealthIdle
    /\ MlIdle
    /\ PwIdle
    /\ MailIdle
    /\ TrackIdle
    /\ PrefsIdle
    /\ BootIdle
SpecTier == InitTier /\ [][TierNext]_vars

\* concurrent scrapes
InitScrape ==
    /\ ScrapeIdle
    /\ AVIdle
    /\ TierIdle
    /\ JobIdle
    /\ SentIdle
    /\ StockIdle
    /\ RiskIdle
    /\ GenIdle
    /\ SchedIdle
    /\ RjobIdle
    /\ HealthIdle
    /\ MlIdle
    /\ PwIdle
    /\ MailIdle
    /\ TrackIdle
    /\ PrefsIdle
    /\ BootIdle
SpecScrape == InitScrape /\ [][ScrapeNext]_vars

\* scrapes against every answer to the robots.txt request
InitRobots ==
    /\ ScrapeInit(NumRobotsCalls)
    /\ AVIdle
    /\ TierIdle
    /\ JobIdle
    /\ SentIdle
    /\ StockIdle
    /\ RiskIdle
    /\ GenIdle
    /\ SchedIdle
    /\ RjobIdle
    /\ HealthIdle
    /\ MlIdle
    /\ PwIdle
    /\ MailIdle
    /\ TrackIdle
    /\ PrefsIdle
    /\ BootIdle
SpecRobots == InitRobots /\ [][ScrapeNext]_vars

\* the market-data job and direct batch runs
InitJob ==
    /\ JobInit
    /\ AVIdle
    /\ TierIdle
    /\ ScrapeIdle
    /\ SentIdle
    /\ StockIdle
    /\ RiskIdle
    /\ GenIdle
    /\ SchedIdle
    /\ RjobIdle
    /\ HealthIdle
    /\ MlIdle
    /\ PwIdle
    /\ MailIdle
    /\ TrackIdle
    /\ PrefsIdle
    /\ BootIdle
SpecJob == InitJob /\ [][JobNext]_vars

\* upsert calls on one session, one after the other
InitUpsert ==
    /\ SentInit({1})
    /\ AVIdle
    /\ TierIdle
    /\ ScrapeIdle
    /\ JobIdle
    /\ StockIdle
    /\ RiskIdle
    /\ GenIdle
    /\ SchedIdle
    /\ RjobIdle
    /\ HealthIdle
    /\ MlIdle
    /\ PwIdle
    /\ MailIdle
    /\ TrackIdle
    /\ PrefsIdle
    /\ BootIdle
SpecUpsert == InitUpsert /\ [][SentNext]_vars

\* upsert calls of several sessions, interleaved
InitUpsertRace ==
    /\ SentInit(Sessions)
    /\ AVIdle
    /\ TierIdle
    /\ ScrapeIdle
    /\ JobIdle
    /\ StockIdle
    /\ RiskIdle
    /\ GenIdle
    /\ SchedIdle
    /\ RjobIdle
    /\ HealthIdle
    /\ MlIdle
    /\ PwIdle
    /\ MailIdle
    /\ TrackIdle
    /\ PrefsIdle
    /\ BootIdle
SpecUpsertRace == InitUpsertRace /\ [][SentNext]_vars

\* create_stock and upsert_stock calls, one after the other
InitStock ==
    /\ StockIdle
    /\ AVIdle
    /\ TierIdle
    /\ ScrapeIdle
    /\ JobIdle
    /\ SentIdle
    /\ RiskIdle
    /\ GenIdle
    /\ SchedIdle
    /\ RjobIdle
    /\ HealthIdle
    /\ MlIdle
    /\ PwIdle
    /\ MailIdle
    /\ TrackIdle
    /\ PrefsIdle
    /\ BootIdle
SpecStock == InitStock /\ [][StockNext]_vars

\* calculate_risk_level applied to confidences, volatilities and market conditions
InitRisk ==
    /\ RiskInit
    /\ AVIdle
    /\ TierIdle
    /\ ScrapeIdle
    /\ JobIdle
    /\ SentIdle
    /\ StockIdle
    /\ GenIdle
    /\ SchedIdle
    /\ RjobIdle
    /\ HealthIdle
    /\ MlIdle
    /\ PwIdle
    /\ MailIdle
    /\ TrackIdle
    /\ PrefsIdle
    /\ BootIdle
SpecRisk == InitRisk /\ [][RiskNext]_vars

\* generation over stocks of varied confidence, sentiment and risk
InitGenerate ==
    /\ GenInit(RankingInputs)
    /\ AVIdle
    /\ TierIdle
    /\ ScrapeIdle
    /\ JobIdle
    /\ SentIdle
    /\ StockIdle
    /\ RiskIdle
    /\ SchedIdle
    /\ RjobIdle
    /\ HealthIdle
    /\ MlIdle
    /\ PwIdle
    /\ MailIdle
    /\ TrackIdle
    /\ PrefsIdle
    /\ BootIdle
SpecGenerate == InitGenerate /\ [][GenNext]_vars

\* generation for every holding period over stocks at the ends of the bands
InitFilter ==
    /\ GenInit(FilterInputs)
    /\ AVIdle
    /\ TierIdle
    /\ ScrapeIdle
    /\ JobIdle
    /\ SentIdle
    /\ StockIdle
    /\ RiskIdle
    /\ SchedIdle
    /\ RjobIdle
    /\ HealthIdle
    /\ MlIdle
    /\ PwIdle
    /\ MailIdle
    /\ TrackIdle
    /\ PrefsIdle
    /\ BootIdle
SpecFilter == InitFilter /\ [][GenNext]_vars

\* startup and the scheduler at work, with late wake-ups
InitSched ==
    /\ SchedInit
    /\ AVIdle
    /\ TierIdle
    /\ ScrapeIdle
    /\ JobIdle
    /\ SentIdle
    /\ StockIdle
    /\ RiskIdle
    /\ GenIdle
    /\ RjobIdle
    /\ HealthIdle
    /\ MlIdle
    /\ PwIdle
    /\ MailIdle
    /\ TrackIdle
    /\ PrefsIdle
    /\ BootIdle
SpecSched == InitSched /\ [][SchedNext]_vars

\* one run of recommendations_job
InitRecJob ==
    /\ RjobInit
    /\ AVIdle
    /\ TierIdle
    /\ ScrapeIdle
    /\ JobIdle
    /\ SentIdle
    /\ StockIdle
    /\ RiskIdle
    /\ GenIdle
    /\ SchedIdle
    /\ HealthIdle
    /\ MlIdle
    /\ PwIdle
    /\ MailIdle
    /\ TrackIdle
    /\ PrefsIdle
    /\ BootIdle
SpecRecJob == InitRecJob /\ [][RjobNext]_vars

\* health checks against a database that comes and goes
InitHealth ==
    /\ HealthIdle
    /\ AVIdle
    /\ TierIdle
    /\ ScrapeIdle
    /\ JobIdle
    /\ SentIdle
    /\ StockIdle
    /\ RiskIdle
    /\ GenIdle
    /\ SchedIdle
    /\ RjobIdle
    /\ MlIdle
    /\ PwIdle
    /\ MailIdle
    /\ TrackIdle
    /\ PrefsIdle
    /\ BootIdle
SpecHealth == InitHealth /\ [][HealthNext]_vars

\* predict requests against every outcome of the inference call
InitPredict ==
    /\ MlIdle
    /\ AVIdle
    /\ TierIdle
    /\ ScrapeIdle
    /\ JobIdle
    /\ SentIdle
    /\ StockIdle
    /\ RiskIdle
    /\ GenIdle
    /\ SchedIdle
    /\ RjobIdle
    /\ HealthIdle
    /\ PwIdle
    /\ MailIdle
    /\ TrackIdle
    /\ PrefsIdle
    /\ BootIdle
SpecPredict == InitPredict /\ [][MlNext]_vars

\* validate_password applied to every password of the bound
InitPassword ==
    /\ PwInit
    /\ AVIdle
    /\ TierIdle
    /\ ScrapeIdle
    /\ JobIdle
    /\ SentIdle
    /\ StockIdle
    /\ RiskIdle
    /\ GenIdle
    /\ SchedIdle
    /\ RjobIdle
    /\ HealthIdle
    /\ MlIdle
    /\ MailIdle
    /\ TrackIdle
    /\ PrefsIdle
    /\ BootIdle
SpecPassword == InitPassword /\ [][PwNext]_vars

\* get_mailer under every combination of the email settings
InitMailer ==
    /\ MailInit
    /\ AVIdle
    /\ TierIdle
    /\ ScrapeIdle
    /\ JobIdle
    /\ SentIdle
    /\ StockIdle
    /\ RiskIdle
    /\ GenIdle
    /\ SchedIdle
    /\ RjobIdle
    /\ HealthIdle
    /\ MlIdle
    /\ PwIdle
    /\ TrackIdle
    /\ PrefsIdle
    /\ BootIdle
SpecMailer == InitMailer /\ [][MailNext]_vars

\* inserts into user_stock_tracking
InitTracking ==
    /\ TrackInit
    /\ AVIdle
    /\ TierIdle
    /\ ScrapeIdle
    /\ JobIdle
    /\ SentIdle
    /\ StockIdle
    /\ RiskIdle
    /\ GenIdle
    /\ SchedIdle
    /\ RjobIdle
    /\ HealthIdle
    /\ MlIdle
    /\ PwIdle
    /\ MailIdle
    /\ PrefsIdle
    /\ BootIdle
SpecTracking == InitTracking /\ [][TrackNext]_vars

\* sequences of upsert_user_preferences calls
InitPrefs ==
    /\ PrefsInit
    /\ AVIdle
    /\ TierIdle
    /\ ScrapeIdle
    /\ JobIdle
    /\ SentIdle
    /\ StockIdle
    /\ RiskIdle
    /\ GenIdle
    /\ SchedIdle
    /\ RjobIdle
    /\ HealthIdle
    /\ MlIdle
    /\ PwIdle
    /\ MailIdle
    /\ TrackIdle
    /\ BootIdle
SpecPrefs == InitPrefs /\ [][PrefsNext]_vars

\* startup() with every phase succeeding or failing
InitStartup ==
    /\ BootInit
    /\ AVIdle
    /\ TierIdle
    /\ ScrapeIdle
    /\ JobIdle
    /\ SentIdle
    /\ StockIdle
    /\ RiskIdle
    /\ GenIdle
    /\ SchedIdle
    /\ RjobIdle
    /\ HealthIdle
    /\ MlIdle
    /\ PwIdle
    /\ MailIdle
    /\ TrackIdle
    /\ PrefsIdle
SpecStartup == InitStartup /\ [][BootNext]_vars

----------------------------------------------------------------------------
(* Properties of the collection service *)

\* the requests call t has sent
RequestsOf(t) == {i \in 1..Len(calls) : calls[i].task = t}

IsServerFailure(r) == r.status = TIMEOUT \/ r.status >= 500
IsRateLimit(r) ==
    \/ r.status = 429
    \/ r.status = 200 /\ "Note" \in r.keys /\ "Error Message" \notin r.keys
IsApiError(r) ==
    \/ r.status = 200 /\ "Error Message" \in r.keys
    \/ r.status >= 400 /\ r.status < 500 /\ r.status # 429
AllOf(h, P(_)) == \A i \in 1..Len(h) : P(h[i])

\* C1: any two requests to the provider are at least 12 seconds apart,
\* whatever the interleaving of the concurrent calls.
C1_MinGapBetweenCalls ==
    \A i, j \in 1..Len(calls) :
        i < j => calls[j].at - calls[i].at >= ALPHA_VANTAGE_RATE_LIMIT_DELAY_SECONDS

\* C4: a call sends at most 3 requests; a timeout or 5xx answer to the first
\* request is followed by a sleep of 1 second and to the second by one of 2
\* seconds; when every answer is a 5xx there are exactly 3 requests, the
\* sleeps are 1s then 2s, and the result is absent; no sleep lasts 4 seconds.
C4_RetryBackoff ==
    \A t \in active :
        LET c == call[t] IN
        /\ Cardinality(RequestsOf(t)) <= 3
        /\ \A i \in 1..Len(c.hist) :
             IsServerFailure(c.hist[i]) /\ i \in {1, 2}
                => Len(c.sleeps) >= i /\ c.sleeps[i] = i
        /\ \A i \in 1..Len(c.sleeps) : c.sleeps[i] # 4
        /\ c.pc = "done" /\ c.hist # <<>> /\ AllOf(c.hist, LAMBDA r : r.status >= 500)
                => /\ Cardinality(RequestsOf(t)) = 3
                   /\ c.sleeps = <<1, 2>>
                   /\ c.result = Absent

C4_Witness ==
    \E t \in active :
        /\ call[t].pc = "done"
        /\ Len(call[t].hist) = 3
        /\ AllOf(call[t].hist, LAMBDA r : r.status = 500)

C6_ApiErrorTerminal ==
    \A t \in active :
        LET c == call[t] IN
        \A i \in 1..Len(c.hist) :
            IsApiError(c.hist[i])
               => /\ i = Len(c.hist)
                  /\ c.pc = "done"
                  /\ c.result = Absent
                  /\ Len(c.sleeps) = i - 1
                  /\ Cardinality(RequestsOf(t)) = i

C6_Witness ==
    \E t \in active :
        /\ Len(call[t].hist) = 2
        /\ call[t].hist[1].status = 500
        /\ "Error Message" \in call[t].hist[2].keys
        /\ call[t].pc = "done"

\* the quotes that fail validation: empty or non-numeric price or volume,
\* price <= 0, volume < 0
BadQuote(r) ==
    \/ r.price \in {"", "abc", "-3.5", "0.0"}
    \/ r.volume \in {"", "1.5", "-7"}

IsInvalidDocument(r) ==
    /\ r.status = 200
    /\ "Error Message" \notin r.keys /\ "Note" \notin r.keys
    /\ "Global Quote" \notin r.keys \/ BadQuote(r)

\* C7: the call raises only when the API key is missing, and then before the
\* limiter and before any request; exhausted retries, a missing "Global
\* Quote", an invalid quote and an API error all end in an absent result.
C7_NeverRaises ==
    \A t \in active :
        LET c == call[t] IN
        /\ c.result = Raised
              => ~apiKey /\ ~c.waited /\ RequestsOf(t) = {} /\ c.hist = <<>>
        /\ c.pc = "done" /\ apiKey => c.result.kind \in {"None", "data"}
        /\ c.pc = "done" /\ c.hist # <<>>
              /\ ( \/ IsInvalidDocument(c.hist[Len(c.hist)])
                   \/ IsApiError(c.hist[Len(c.hist)])
                   \/ Len(c.hist) = MAX_RETRIES /\
                        ( \/ IsServerFailure(c.hist[Len(c.hist)])
                          \/ IsRateLimit(c.hist[Len(c.hist)])
                          \/ c.hist[Len(c.hist)].status = TRANSPORT_ERROR ) )
              => c.result = Absent
        /\ c.result.kind = "data" => c.result.price > 0 /\ c.result.volume >= 0

C7_Witness ==
    \E t \in active :
        /\ call[t].pc = "done"
        /\ Len(call[t].hist) = 2
        /\ call[t].hist[2].status = 200
        /\ call[t].hist[2].keys = {"Global Quote"}
        /\ call[t].hist[2].price = "0.0"
        /\ call[t].hist[2].volume = "1000000"
        /\ call[t].result = Absent

----------------------------------------------------------------------------
(* Properties of the tier check *)

\* C2: a free user never has more than 5 UserStockTracking rows, whatever
\* the interleaving of the guarded add requests.
C2_FreeTierCap ==
    tier = "free" => Cardinality(tracked) <= 5

\* C10: check_tier_limit on a count n (no query failing): a free user, or a
\* user without a row, with n < 5 gets allowed, limit 5, remaining 5 - n,
\* stock_count n and no reason; with n >= 5 denied, free_tier_limit_reached,
\* limit 5, remaining 0, stock_count n; a premium user allowed, limit and
\* remaining None, stock_count n.
C10_TierLimitResult ==
    \A r \in Requests :
        LET q == req[r]
            n == q.counted
        IN  q.pc # "idle" /\ ~q.failed =>
              /\ tier \in {"free", "missing"} /\ n < 5 =>
                    /\ q.result = [allowed |-> TRUE, limit |-> {5},
                                   remaining |-> {5 - n}, stock_count |-> n]
                    /\ "reason" \notin DOMAIN q.result
              /\ tier \in {"free", "missing"} /\ n >= 5 =>
                    q.result = [allowed |-> FALSE, reason |-> "free_tier_limit_reached",
                                limit |-> {5}, remaining |-> {0}, stock_count |-> n]
              /\ tier = "premium" =>
                    q.result = [allowed |-> TRUE, limit |-> {}, remaining |-> {},
                                stock_count |-> n]

\* a free user checked at exactly 5 rows after a request added the fifth
C10_Witness ==
    \E r, a \in Requests :
        /\ tier = "free"
        /\ req[a].pc = "added"
        /\ req[r].pc = "forbidden" /\ ~req[r].failed
        /\ req[r].counted = 5

----------------------------------------------------------------------------
(* Properties of the scraper *)

\* C3: the page requests of concurrent calls to one domain never run in
\* parallel and start at least the effective minimum delay apart.
C3_SameDomainSerialized ==
    /\ \A c, d \in Scrapes :
          c # d /\ scrape[c].pc = "fetch" /\ scrape[d].pc = "fetch"
             => scrape[c].domain # scrape[d].domain
    /\ \A i, j \in 1..Len(pages) :
          i < j /\ pages[i].domain = pages[j].domain
             => pages[j].at - pages[i].at >= pages[j].delay

----------------------------------------------------------------------------
(* Properties of the market-data job *)

\* the stocks whose collection gave data and whose write then failed
WriteFailed == {s \in job.handled : collected[s] = "data" /\ s \notin written}

\* C8: whatever fails per stock and whatever the batch size, the run handles
\* every input stock and returns total = number of stocks and
\* successful + failed = total, with successful the number of MarketData
\* rows written; a failure stops neither its batch nor the later ones.
C8_BatchStatistics ==
    /\ stats.successful = Cardinality(written)
    /\ stats.successful + stats.failed = Cardinality(job.handled)
    /\ job.statsReturned =>
          /\ job.handled = 1..job.n
          /\ stats.total = job.n
          /\ stats.successful + stats.failed = stats.total

\* a direct run of two batches or more with a collection that raised, one
\* that gave nothing and a failed write in the first batch, and a row
\* written in the last
C8_Witness ==
    /\ job.entry = "direct" /\ job.statsReturned
    /\ job.n = MaxStocks /\ job.batch_size = MaxBatch
    /\ collected[1] = "caught" /\ collected[2] = "None"
    /\ 3 \in WriteFailed
    /\ job.n \in written

\* C9: the job disposes the engine it created on every way out: normal
\* completion, the early return without stocks, and an exception.
C9_EngineDisposedOnExit ==
    job.pc = "exit" /\ job.engine # "none" => job.disposeCalls >= 1

\* C11: a check whose tier or count query raised returns allowed=false,
\* reason tier_check_error, stock_count 0; every denied result becomes an
\* HTTP 403; the guarded handler runs only after an allowed result, and
\* holds the full result dict.
C11_FailsClosed ==
    \A r \in Requests :
        LET q == req[r] IN
        q.pc # "idle" =>
          /\ q.failed =>
                q.result = [allowed |-> FALSE, reason |-> "tier_check_error",
                            stock_count |-> 0]
          /\ ~q.result.allowed => q.pc = "forbidden" /\ q.detail # ""
          /\ q.pc \in {"allowed", "added", "rejected"} =>
                /\ q.result.allowed /\ ~q.failed
                /\ DOMAIN q.result = {"allowed", "limit", "remaining", "stock_count"}
                /\ q.result.stock_count = q.counted

\* one request denied by a failing query while another went through
C11_Witness ==
    \E r, a \in Requests :
        /\ req[r].failed /\ req[r].pc = "forbidden"
        /\ req[r].detail = "Tier check failed. Please try again."
        /\ req[a].pc = "added"

----------------------------------------------------------------------------
(* Properties of the sentiment rows *)

\* the calls before call i with the same key
EarlierSameKey(i) == {j \in 1..(i - 1) : upserts[j].key = upserts[i].key}

First(S) == CHOOSE j \in S : \A k \in S : j <= k

\* C12: in a sequence of upsert calls on one session, a call whose key is
\* already there inserts nothing and returns the row the first call with that
\* key made, with the first call's score; a call with a key not yet there
\* (another timestamp, say) inserts one new row of its own.
C12_UpsertIdempotent ==
    /\ \A i \in 1..Len(upserts) :
          LET u == upserts[i] IN
          /\ ~u.raised
          /\ \E row \in u.returned :
                /\ u.returned = {row}
                /\ KeyOf(row) = u.key
                /\ IF EarlierSameKey(i) # {}
                   THEN LET f == upserts[First(EarlierSameKey(i))] IN
                        /\ u.after = u.before
                        /\ u.returned = f.returned
                        /\ row.sentiment_score = f.score
                   ELSE /\ u.after = u.before + 1
                        /\ row.sentiment_score = u.score
                        /\ \A j \in 1..(i - 1) : row \notin upserts[j].returned
    /\ \A key \in SentimentKeys :
          Cardinality(RowsWithKey(sentiment_data, key)) <= 1
    /\ \A row \in sentiment_data :
          \E i \in 1..Len(upserts) :
              /\ EarlierSameKey(i) = {}
              /\ upserts[i].returned = {row}

\* the same key upserted twice with different scores, then another timestamp
C12_Witness ==
    /\ Len(upserts) = 3
    /\ upserts[2].key = upserts[1].key
    /\ upserts[2].score # upserts[1].score
    /\ upserts[3].key.timestamp # upserts[1].key.timestamp
    /\ upserts[3].key.source = upserts[1].key.source
    /\ Cardinality(sentiment_data) = 2

----------------------------------------------------------------------------
(* Properties of the stock rows *)

\* C13: after any sequence of create_stock and upsert_stock calls every
\* stored symbol is upper-case; an upsert_stock whose symbol matches a row in
\* any letter case returns that row with its id and symbol, company_name
\* set, sector and fortune_500_rank set only when given, and adds no row;
\* get_stock_by_symbol gives the same row for every casing of a symbol.
C13_SymbolsCaseInsensitive ==
    /\ \A row \in stock_rows : row.symbol = upper(row.symbol)
    /\ LET c == stock_call IN
       (c.op = "upsert_stock" /\ c.prior # {}) =>
          /\ ~c.raised
          /\ c.after = c.before
          /\ \E old \in c.prior, row \in c.returned :
                /\ c.prior = {old} /\ c.returned = {row}
                /\ row \in stock_rows
                /\ row.id = old.id
                /\ row.symbol = old.symbol
                /\ row.company_name = c.company_name
                /\ row.sector = (IF c.sector # None THEN c.sector ELSE old.sector)
                /\ row.fortune_500_rank =
                      (IF c.fortune_500_rank # None THEN c.fortune_500_rank
                       ELSE old.fortune_500_rank)
    /\ \A a, b \in StockSymbols :
          upper(a) = upper(b) =>
             /\ ~get_stock_by_symbol(stock_rows, a).raised
             /\ get_stock_by_symbol(stock_rows, a) = get_stock_by_symbol(stock_rows, b)

\* a row made under a lower-case symbol, then upserted under another casing
\* with no sector given: the sector it had is kept
C13_Witness ==
    /\ stock_call.op = "upsert_stock"
    /\ stock_call.symbol = "Aapl"
    /\ stock_call.sector = None
    /\ \E old \in stock_call.prior :
          old.sector = Some("Tech") /\ old.company_name # stock_call.company_name
    /\ Cardinality(stock_rows) = 2
    /\ get_stock_by_symbol(stock_rows, "aapl").row = stock_call.returned
----------------------------------------------------------------------------
(* Properties of the recommendation service *)

\* candidate a is ranked before candidate b: higher confidence, then higher
\* sentiment, then lower risk
RankedBefore(a, b) ==
    LET level == [low |-> 1, medium |-> 2, high |-> 3] IN
    \/ a.confidence > b.confidence
    \/ a.confidence = b.confidence /\ a.sentiment > b.sentiment
    \/ /\ a.confidence = b.confidence
       /\ a.sentiment = b.sentiment
       /\ level[a.risk_level] < level[b.risk_level]

\* the candidate a persisted row was made from
CandidateOf(rec) ==
    [stock_id |-> rec.stock_id, signal |-> rec.signal,
     confidence |-> rec.confidence_score, sentiment |-> rec.sentiment_score,
     risk_level |-> rec.risk_level]

PersistedCandidates == {CandidateOf(gen.persisted[i]) : i \in 1..Len(gen.persisted)}

PoolCandidates == {gen.candidates[i] : i \in 1..Len(gen.candidates)}

\* the pool of the example: confidences 0.80, 0.95, 0.80, equal sentiment,
\* the third of lower risk than the first
ExamplePool ==
    /\ Len(gen.candidates) = 3
    /\ gen.candidates[1].confidence = 800
    /\ gen.candidates[2].confidence = 950
    /\ gen.candidates[3].confidence = 800
    /\ gen.candidates[1].sentiment = gen.candidates[3].sentiment
    /\ RankedBefore(gen.candidates[3], gen.candidates[1])

\* C14: a call that returns has persisted min(N, number of candidates) rows,
\* N = max(0, daily_target_count), each from a candidate of its own, in rank
\* order (confidence descending, sentiment descending, risk ascending), and
\* no candidate left out ranks before a persisted one; of the example pool
\* with N = 2 the rows are the 0.95 candidate and the lower-risk 0.80 one.
C14_TopNByRank ==
    gen.pc = "done" /\ gen.outcome = "returned" =>
        LET N == IF gen.daily_target_count > 0 THEN gen.daily_target_count ELSE 0
            p == gen.persisted
        IN  /\ Len(p) = (IF N < Len(gen.candidates) THEN N ELSE Len(gen.candidates))
            /\ PersistedCandidates \subseteq PoolCandidates
            /\ Cardinality(PersistedCandidates) = Len(p)
            /\ \A i, j \in 1..Len(p) :
                  i < j => ~RankedBefore(CandidateOf(p[j]), CandidateOf(p[i]))
            /\ \A c \in PoolCandidates \ PersistedCandidates :
                  \A d \in PersistedCandidates : ~RankedBefore(c, d)
            /\ (ExamplePool /\ gen.daily_target_count = 2) =>
                  /\ CandidateOf(p[1]) = gen.candidates[2]
                  /\ CandidateOf(p[2]) = gen.candidates[3]

\* the example pool, ranked and cut to two rows
C14_Witness ==
    /\ gen.pc = "done" /\ gen.outcome = "returned"
    /\ ExamplePool
    /\ gen.daily_target_count = 2
    /\ Len(gen.persisted) = 2

\* the holding-period filter, as specified
Admitted(holding_pref, v) ==
    \/ holding_pref = "none"
    \/ holding_pref = "daily" /\ v >= 50
    \/ holding_pref = "weekly" /\ 20 <= v /\ v <= 600
    \/ holding_pref = "monthly" /\ v <= 400

\* C15: an exception while one stock is processed (inference, volatility
\* or risk) takes that stock alone out of the pool: the call never raises, a
\* call that returns has processed every stock, and the pool holds, in
\* order, the stocks that neither failed nor were filtered out; with no
\* stocks, or no candidate left, the call returns an empty list.
C15_StockFailureIsolated ==
    /\ gen.outcome # "raised"
    /\ gen.pc = "done" =>
          /\ gen.outcome = "returned"
          /\ Len(gen.seen) = gen.stocks
          /\ \A s \in 1..gen.stocks :
                gen.seen[s].failed # "none" => ~gen.seen[s].candidate
          /\ {c.stock_id : c \in PoolCandidates}
                = {s \in 1..gen.stocks : gen.seen[s].candidate}
          /\ \A i, j \in 1..Len(gen.candidates) :
                i < j => gen.candidates[i].stock_id < gen.candidates[j].stock_id
          /\ (gen.stocks = 0 \/ gen.candidates = <<>>) => gen.persisted = <<>>
    /\ \A s \in 1..Len(gen.seen) :
          (gen.seen[s].failed = "none"
             /\ \E v \in gen.seen[s].volatility : Admitted(gen.holding_pref, v))
            => gen.seen[s].candidate

\* a stock failed at each stage, and a later stock was persisted
C15_Witness ==
    /\ gen.pc = "done" /\ gen.outcome = "returned"
    /\ gen.stocks = 3
    /\ gen.seen[1].failed = "inference"
    /\ gen.seen[2].failed \in {"volatility", "risk"}
    /\ gen.seen[3].candidate
    /\ Len(gen.persisted) = 1
    /\ gen.persisted[1].stock_id = 3

\* C16: a stock whose processing does not fail is a candidate exactly when
\* its 30-day volatility is admitted by the user's holding period, and no
\* persisted row is of a stock that is not admitted, even when fewer than N
\* candidates remain.
C16_HoldingPeriodFilter ==
    /\ \A s \in 1..Len(gen.seen) :
          gen.seen[s].failed = "none" =>
              \E v \in gen.seen[s].volatility :
                  gen.seen[s].candidate <=> Admitted(gen.holding_pref, v)
    /\ \A i \in 1..Len(gen.persisted) :
          LET s == gen.persisted[i].stock_id IN
          \E v \in gen.seen[s].volatility : Admitted(gen.holding_pref, v)

\* a weekly user: a stock at 0.6 is persisted, one at 0.601 is not, and
\* fewer rows than the target are persisted
C16_Witness ==
    /\ gen.pc = "done"
    /\ gen.holding_pref = "weekly"
    /\ gen.stocks = 3
    /\ gen.seen[1].volatility = Some(601) /\ ~gen.seen[1].candidate
    /\ gen.seen[2].volatility = Some(600) /\ gen.seen[2].candidate
    /\ gen.seen[3].volatility = Some(19) /\ ~gen.seen[3].candidate
    /\ Len(gen.persisted) = 1
    /\ gen.daily_target_count > Len(gen.persisted)

----------------------------------------------------------------------------
(* Properties of the scheduler, the recommendations job and the health     *)
(* endpoint                                                                *)

RECURSIVE SumCreated(_)
SumCreated(outcomes) ==
    IF outcomes = <<>> THEN 0
    ELSE SumCreated(SubSeq(outcomes, 1, Len(outcomes) - 1))
           + (IF outcomes[Len(outcomes)].raised THEN 0
              ELSE outcomes[Len(outcomes)].value)

\* C19: a run that found users and ended has attempted generation once for
\* each of them, whatever the earlier ones came to, and returns; the total
\* is the sum over the users whose generation returned; whenever the job
\* has ended, an engine that was created has been disposed.
C19_EveryUserAttempted ==
    /\ rjob.total_created = SumCreated(rjob.generated)
    /\ Len(rjob.generated) <= rjob.users
    /\ (rjob.pc = "exit" /\ rjob.users > 0) =>
          /\ Len(rjob.generated) = rjob.users
          /\ rjob.outcome = "returned"
          /\ "completed" \in rjob.logged
    /\ rjob.pc = "exit" =>
          /\ rjob.engine \in {"none", "disposed"}
          /\ rjob.engine = "disposed" <=> rjob.dispose_calls = 1

\* the first user's generation raised, the later ones created rows, and the
\* engine was disposed
C19_Witness ==
    /\ rjob.pc = "exit"
    /\ rjob.users = 3
    /\ rjob.generated[1].raised
    /\ ~rjob.generated[2].raised /\ ~rjob.generated[3].raised
    /\ rjob.total_created = 3
    /\ rjob.engine = "disposed"

----------------------------------------------------------------------------
(* Properties of the predict endpoint, the password rules, the mailer and  *)
(* the tracking table                                                      *)

\* C21: every failure of the inference call is answered with one status: a
\* ValueError with 400 and its own message, a RuntimeError with 503 and the
\* fixed message, anything else with 500 and a generic message that holds
\* nothing of the error; a ValueError never gets 503, a RuntimeError never 400.
C21_PredictStatusMapping ==
    \A i \in 1..Len(predictions) :
        LET o == predictions[i].outcome
            r == predictions[i].response
            invalid == o.raised /\ "ValueError" \in ExceptionBases[o.class]
            unloaded == o.raised /\ "RuntimeError" \in ExceptionBases[o.class]
        IN  /\ invalid => r.status_code = 400 /\ r.detail = o.message
            /\ unloaded =>
                  /\ r.status_code = 503
                  /\ r.detail = "ML models not available. Please ensure models are loaded at startup."
            /\ (o.raised /\ ~invalid /\ ~unloaded) =>
                  /\ r.status_code = 500
                  /\ r.detail = "An error occurred during prediction."
                  /\ r.detail \notin ErrorMessages
            /\ r.status_code = 503 => ~invalid
            /\ r.status_code = 400 => ~unloaded
            /\ ~o.raised => r.status_code = 200

\* a subclass of ValueError was answered, then an exception of neither class
C21_Witness ==
    /\ Len(predictions) = 2
    /\ predictions[1].outcome.class = "UnicodeDecodeError"
    /\ predictions[1].response.status_code = 400
    /\ predictions[2].outcome.class = "KeyError"
    /\ predictions[2].response.status_code = 500

\* C22: validate_password rejects exactly when the password is shorter than
\* 8, holds the user's e-mail, is all letters or is all digits, and the
\* message is that of the first of these, in this order.
C22_PasswordRules ==
    pw.pc = "done" =>
        LET p == pw.password
            short == Len(p) < 8
            hasEmail == pw.email # <<>> /\ IsSubstring(pw.email, p)
            letters == Len(p) > 0 /\ \A i \in 1..Len(p) : p[i] = "a"
            digits == Len(p) > 0 /\ \A i \in 1..Len(p) : p[i] = "1"
        IN  /\ pw.result = "accepted" <=> ~(short \/ hasEmail \/ letters \/ digits)
            /\ short => pw.result = "Password should be at least 8 characters"
            /\ (~short /\ hasEmail) => pw.result = "Password should not contain e-mail"
            /\ (~short /\ ~hasEmail /\ letters) =>
                  pw.result = "Password should contain at least one number or special characters(@#*)"
            /\ (~short /\ ~hasEmail /\ ~letters /\ digits) =>
                  pw.result = "Password should not contain only numeric values"

\* a short, all-letter password was rejected for its length
C22_Witness ==
    /\ pw.pc = "done"
    /\ pw.password = <<"a", "a", "a">>
    /\ pw.result = "Password should be at least 8 characters"

\* C23: get_mailer gives Resend when RESEND_API_KEY is set; else SES only
\* when EMAILS_ENABLED is true and the SES access key, secret key and region
\* are present; else the no-op provider.
C23_MailerPriority ==
    mail.mailer \notin {"unset", "off"} =>
        LET s == mail.settings IN
        mail.mailer =
            IF Truthy(s.RESEND_API_KEY) THEN "ResendProvider"
            ELSE IF s.EMAILS_ENABLED /\ Truthy(s.SES_ACCESS_KEY)
                    /\ Truthy(s.SES_SECRET_KEY) /\ Truthy(s.SES_REGION)
            THEN "SES"
            ELSE "Null"

\* C24: the table never holds two rows with the same (user_id, stock_id), so
\* the count check_tier_limit uses is the number of distinct stocks tracked.
C24_NoDuplicateTracking ==
    /\ \A r1, r2 \in tracking.rows :
          (r1.user_id = r2.user_id /\ r1.stock_id = r2.stock_id) => r1 = r2
    /\ \A u \in TrackingUsers :
          TrackedCount(tracking.rows, u) =
              Cardinality({r.stock_id : r \in {x \in tracking.rows : x.user_id = u}})

----------------------------------------------------------------------------
(* Properties of the user preferences upsert *)

\* C25: a user never has more than one preferences row; the call that finds
\* none creates it from the request, with daily and medium for the fields
\* left out; a call that finds one keeps its id and changes only the fields
\* the request supplies.
C25_OnePreferencesRow ==
    /\ \A u \in PrefUsers : Cardinality({r \in prefs.rows : r.user_id = u}) <= 1
    /\ prefs.calls > 0 =>
          LET c == prefs.last
              after == CHOOSE r \in c.result : TRUE
              hp == c.preferences.holding_period
              rt == c.preferences.risk_tolerance
          IN  /\ after \in prefs.rows /\ after.user_id = c.user_id
              /\ c.existing = {} =>
                    /\ after.holding_period = (IF hp = None THEN "daily" ELSE CHOOSE v \in hp : TRUE)
                    /\ after.risk_tolerance = (IF rt = None THEN "medium" ELSE CHOOSE v \in rt : TRUE)
              /\ \A before \in c.existing :
                    /\ after.id = before.id
                    /\ after.holding_period =
                          (IF hp = None THEN before.holding_period ELSE CHOOSE v \in hp : TRUE)
                    /\ after.risk_tolerance =
                          (IF rt = None THEN before.risk_tolerance ELSE CHOOSE v \in rt : TRUE)

\* a row made with the defaults got a new risk tolerance and kept the rest
C25_Witness ==
    /\ prefs.calls = 2
    /\ prefs.last.existing = {[id |-> 1, user_id |-> 1, holding_period |-> "weekly",
                               risk_tolerance |-> "medium"]}
    /\ prefs.last.preferences = [holding_period |-> None, risk_tolerance |-> Some("high")]
    /\ prefs.rows = {[id |-> 1, user_id |-> 1, holding_period |-> "weekly",
                      risk_tolerance |-> "high"]}

----------------------------------------------------------------------------
(* The phases of a batch of collect_market_data_for_stocks *)

CollectionOver(s) == collected[s] \in {"data", "None", "caught"}

\* while results are stored every collection call of the batch is over, and
\* a collection call has started only in a batch before which every result
\* of the earlier batches was handled
C26_PhasesApart ==
    /\ job.pc = "store" => \A s \in Batch : CollectionOver(s)
    /\ \A s \in job.handled : CollectionOver(s)
    /\ \A s \in 1..MaxStocks :
          collected[s] # "pending" =>
              /\ s <= job.batch_end
              /\ \A t \in 1..Min(job.batch_start, job.n) : t \in job.handled

\* C26: in each batch no write starts before every collection call of the
\* batch is over, the writes come one at a time, and the next batch's
\* collection starts only after every write of this batch and the pause,
\* which is taken exactly when a next batch exists.
C26_BatchPhases ==
    /\ []C26_PhasesApart
    /\ [][/\ (written' # written \/ job'.handled # job.handled) =>
                /\ job.pc = "store"
                /\ \A s \in Batch : CollectionOver(s)
                /\ Cardinality(written' \ written) <= 1
                /\ Cardinality(job'.handled \ job.handled) = 1
          /\ (job.pc = "store" /\ job'.pc # "store") =>
                /\ Batch \subseteq job.handled
                /\ job'.pc = (IF job.batch_end < job.n THEN "pause" ELSE "loop")
          /\ job'.pc = "pause" => job.pc \in {"store", "pause"} /\ job.batch_end < job.n
          /\ (job'.pc = "gather" /\ job.pc # "gather" /\ job.batch_start > 0) =>
                /\ job.pc = "loop"
                /\ \A t \in 1..job.batch_start : t \in job.handled
          /\ (job'.pc = "loop" /\ job.pc # "loop" /\ job'.batch_start > 0
                /\ job'.batch_start < job.n) => job.pc = "pause"]_vars

\* the second batch is being collected after the first was stored
C26_Witness ==
    /\ job.pc = "gather"
    /\ job.batch_size = 2 /\ job.n = 4 /\ job.batch_start = 2
    /\ job.handled = {1, 2}
    /\ written = {1}
    /\ collected[3] = "running" /\ collected[4] = "data"

----------------------------------------------------------------------------
(* The rows generate_recommendations persists *)

\* C27: every persisted row carries the holding_period of the user's
\* preferences at generation time, with the user id, the candidate's stock,
\* signal, confidence, sentiment and risk level, and a creation timestamp
\* that all rows of the run share.
C27_RowsCarryHoldingPeriod ==
    \A i \in 1..Len(gen.persisted) :
        LET rec == gen.persisted[i] IN
        /\ gen.holding_pref # "none" => rec.holding_period = gen.holding_pref
        /\ rec.user_id = gen.user_id
        /\ CandidateOf(rec) \in PoolCandidates
        /\ rec.created_at = gen.persisted[1].created_at

----------------------------------------------------------------------------
(* The phases of startup() *)

----------------------------------------------------------------------------
(* robots.txt and the scrape *)

\* the page requests made by call c
PagesOf(c) == {i \in 1..Len(pages) : pages[i].call = c}

\* the delay the call was given or, without one, the configured delay
ConfiguredDelay(arg) == IF arg = None THEN SCRAPE_MIN_DELAY_SECONDS ELSE CHOOSE d \in arg : TRUE

\* C29: a robots.txt fetched with status 200 that disallows the page ends
\* the call with nothing, before the rate limiter and without a request of
\* the page; a robots.txt that could not be fetched (another status, or an
\* error of the request) lets the scrape go on; a positive crawl-delay of a
\* fetched file replaces the configured minimum delay.
C29_RobotsDecides ==
    \A c \in Scrapes :
        \A r \in scrape[c].robots :
            IF r.status = 200 /\ ~r.can_fetch
            THEN /\ scrape[c].pc = "done" /\ scrape[c].result = "None"
                 /\ PagesOf(c) = {}
                 /\ scrape[c].wake = 0 /\ scrape[c].domain \notin held[c]
            ELSE /\ scrape[c].pc \in {"acquire", "delay", "fetch", "done"}
                 /\ scrape[c].pc \in {"fetch", "done"} => Cardinality(PagesOf(c)) = 1
                 /\ scrape[c].delay =
                       (IF r.status = 200 /\ r.crawl_delay > 0 THEN r.crawl_delay
                        ELSE ConfiguredDelay(scrape[c].arg))
                 /\ \A i \in PagesOf(c) : pages[i].at >= scrape[c].delay

\* robots.txt came with a 404 and a body that disallows the page, and the
\* page was requested after the configured delay
C29_Witness ==
    /\ scrape[1].robots = Some([status |-> 404, can_fetch |-> FALSE, crawl_delay |-> 5])
    /\ scrape[1].pc = "done" /\ scrape[1].result = "data"
    /\ scrape[1].arg = None
    /\ Len(pages) = 1 /\ pages[1].call = 1 /\ pages[1].delay = SCRAPE_MIN_DELAY_SECONDS

----------------------------------------------------------------------------
(* Concurrent upserts of sentiment rows *)

\* C30: whatever the interleaving of upsert calls with one key on different
\* sessions, once every call has returned at most one row has that key.
C30_OneRowPerKeyAfterRace ==
    (\A s \in Sessions : ups[s].pc # "checked") =>
        \A key \in SentimentKeys : Cardinality(RowsWithKey(sentiment_data, key)) <= 1
====
